---- MODULE Spec2Model ----
(***************************************************************************)
(* Model of the Wiktionary validation tools of google-1gram:               *)
(*   cleanse-dictionary.py      (worker pool, shared counters, four        *)
(*                               buffered buckets, early stop)             *)
(*   wiktionary_locale_dump.py  (process_one, the ordered result loop)     *)
(*                                                                         *)
(* A lookup (fetch_definition) touches no shared state, so one lookup is   *)
(* one step: the step draws the server's behaviour and computes what the   *)
(* retry loop returns for it.  Every `with stats_lock:` block is one step. *)
(***************************************************************************)
EXTENDS Integers, Sequences, FiniteSets, TLC

\* ---------------------------------------------------------------- bounds
\* Longest input (number of candidate lines read by parse_input_csv).
MaxTasks == 2
\* --workers: size of the thread pool.
Workers == 2
\* Largest --size target considered (targets 1..MaxTarget, and no target).
MaxTarget == 1
\* A server may answer 429 up to MaxBurst times before its lasting answer.
MaxBurst == 1
\* The result loop flushes every FlushEvery results.  The code's interval
\* is 100 (cleanse-dictionary.py:716); the model takes a small interval so
\* that a periodic flush happens while workers are still recording.
FlushEvery == 1
\* Attempts of one lookup followed through rate_limit (the code's
\* max_attempts is 6).
RateAttempts == 2
\* The clock is followed for MaxClock ticks.
MaxClock == 3
\* Longest input file followed through parse_input_csv line by line.
MaxLines == 3
\* Longest filter expression (in tokens) given to to_rpn.
MaxExprLen == 7

\* ------------------------------------------------------ program constants
RATE_LIMIT_MAX_RETRIES == 6
\* Seconds in the code; milliseconds here.
RATE_LIMIT_BASE_DELAY == 750
RATE_LIMIT_MAX_DELAY == 20000

\* ------------------------------------------------------------------ words
\* Words are the two-letter strings "ab", "Ab", "aB", "AB" and "42" (no cased
\* character); a token is a word, possibly with a part-of-speech suffix.
InputWords == {"ab", "Ab"}
Tokens == {"ab", "Ab", "ab_NOUN"}

\* str.capitalize(): first character upper-cased, the rest lower-cased.
capitalize(w) == IF w = "42" THEN "42" ELSE "Ab"

\* str.lower()
lower(w) == IF w = "42" THEN "42" ELSE "ab"

\* query_base[:1].upper() + query_base[1:]
upper_first(w) ==
    IF w \in {"ab", "Ab"} THEN "Ab" ELSE IF w \in {"aB", "AB"} THEN "AB" ELSE w

\* cleanse-dictionary.py normalize_term: "plus_ADV" -> "plus".
normalize_term(term) == IF term = "ab_NOUN" THEN "ab" ELSE term

\* wiktionary_locale_dump.py strip_pos_suffix_for_query: "years_NOUN" -> "years".
strip_pos_suffix_for_query(token) == IF token = "ab_NOUN" THEN "ab" ELSE token

\* ------------------------------------------------------- server responses
\* A JSON body: json says how it parses ("garbage" does not parse, "list" is
\* a JSON value that is not an object); for an object, `other` says whether
\* it has a key that is not the locale, `sect` what the locale key maps to
\* ("absent": no such key, "str": a value that is not a list, "list": the
\* list `entries`).  An entry is "noun", "nounpl" (a noun whose definition
\* reads "plural of ..."), "verb", or "bad" (an element that is not a JSON
\* object).
Body(j, o, s, e) == [json |-> j, other |-> o, sect |-> s, entries |-> e]

None == Body("none", FALSE, "absent", <<>>)

Bodies ==
    { Body("garbage", FALSE, "absent", <<>>),
      Body("list", FALSE, "absent", <<>>),
      Body("dict", FALSE, "absent", <<>>),
      Body("dict", TRUE, "absent", <<>>),
      Body("dict", FALSE, "str", <<>>),
      Body("dict", FALSE, "list", <<>>),
      Body("dict", FALSE, "list", <<"noun">>),
      Body("dict", FALSE, "list", <<"nounpl">>),
      Body("dict", FALSE, "list", <<"bad">>) }

\* One HTTP exchange: an exception raised by requests.get, or a status with
\* a body (read only on 200).
Resp(k, st, b) == [kind |-> k, status |-> st, body |-> b]

Responses ==
    { Resp("exc", 0, None) }
    \cup { Resp("http", st, None) : st \in {404, 429, 500, 403} }
    \cup { Resp("http", 200, b) : b \in Bodies }

R429 == Resp("http", 429, None)

RECURSIVE Repeat(_, _)
Repeat(x, n) == IF n = 0 THEN <<>> ELSE <<x>> \o Repeat(x, n - 1)

\* A server behaviour is a non-empty sequence of responses; the server keeps
\* giving the last one to every later request.
ServerBehaviours ==
    { <<r>> : r \in Responses }
    \cup { Repeat(R429, k) \o <<r>> : k \in 1..MaxBurst, r \in Responses \ {R429} }

RespAt(beh, n) == beh[IF n <= Len(beh) THEN n ELSE Len(beh)]

\* ---------------------------------- cleanse-dictionary.py: fetch_definition
Ret(st, d, n) == [status |-> st, data |-> d, requests |-> n]

\* The `while True:` loop: `attempt` is the loop's counter, n the number of
\* requests issued so far; the result carries the number of requests issued.
RECURSIVE fetch_loop(_, _, _)
fetch_loop(beh, attempt, n) ==
    LET resp == RespAt(beh, n + 1) IN
    IF resp.kind = "exc" THEN Ret(-1, None, n + 1)
    ELSE IF resp.status = 429 THEN
        IF attempt >= RATE_LIMIT_MAX_RETRIES THEN Ret(429, None, n + 1)
        ELSE fetch_loop(beh, attempt + 1, n + 1)
    ELSE IF resp.status # 200 THEN Ret(resp.status, None, n + 1)
    ELSE IF resp.body.json = "garbage" THEN Ret(-1, None, n + 1)
    ELSE IF resp.body.json # "dict" THEN Ret(200, None, n + 1)
    ELSE Ret(200, resp.body, n + 1)

\* Variant of fetch_definition that allows one retry more.
fetch_definition_one_more_retry(beh) == fetch_loop(beh, -1, 0)

\* Variant of fetch_definition whose loop counter starts at 1.
fetch_definition_from_one(beh) == fetch_loop(beh, 1, 0)

fetch_definition(beh) == fetch_loop(beh, 0, 0)

\* -------------------------------------- cleanse-dictionary.py: tag helpers
pos_of(entry) == IF entry = "verb" THEN "VERB" ELSE "NOUN"

RECURSIVE dedupe(_, _)
dedupe(xs, seen) ==
    IF xs = <<>> THEN <<>>
    ELSE IF Head(xs) \in seen THEN dedupe(Tail(xs), seen)
    ELSE <<Head(xs)>> \o dedupe(Tail(xs), seen \cup {Head(xs)})

\* entry.get(...) raises on an element that is not an object.
raises_in_extract(section) == \E k \in 1..Len(section) : section[k] = "bad"

extract_pos_list(section) ==
    dedupe([k \in 1..Len(section) |-> pos_of(section[k])], {})

is_plural_noun_entry(section) == \E k \in 1..Len(section) : section[k] = "nounpl"

\* Only the NOUN tags are modelled; the VERB markers read definition texts.
extract_additional_info(pos_list, section) ==
    IF \E k \in 1..Len(pos_list) : pos_list[k] = "NOUN"
    THEN IF is_plural_noun_entry(section) THEN <<"PLURAL">> ELSE <<"SINGULAR">>
    ELSE <<>>

validated_csv(t, out_word, section) ==
    [task |-> t, word |-> out_word,
     tags |-> extract_pos_list(section)
              \o extract_additional_info(extract_pos_list(section), section)]

\* `isinstance(section, list) and section` of handle_200.
locale_present(data) == data.sect = "list" /\ Len(data.entries) > 0

\* `status == 200 and isinstance(data, dict) and data` of check_wiktionary.
usable_200(status, data) ==
    status = 200 /\ data.json = "dict" /\ (data.other \/ data.sect # "absent")

reason_of(status) ==
    IF status = 429 THEN "rate_limited"
    ELSE IF status = -1 THEN "exception"
    ELSE "http_" \o ToString(status)

\* ------------------------------ wiktionary_locale_dump.py: fetch_definition
max_attempts == 6

RETRYABLE == {429, 500, 502, 503, 504}

\* Variant of ld_fetch_loop that retries every status other than 200 and 404.
RECURSIVE ld_fetch_loop_retrying_all(_, _, _)
ld_fetch_loop_retrying_all(beh, attempt, n) ==
    IF attempt >= max_attempts THEN Ret(0, None, n)
    ELSE LET resp == RespAt(beh, n + 1) IN
         IF resp.kind = "exc" THEN ld_fetch_loop_retrying_all(beh, attempt + 1, n + 1)
         ELSE IF resp.status = 200 THEN
             IF resp.body.json = "garbage"
             THEN ld_fetch_loop_retrying_all(beh, attempt + 1, n + 1)
             ELSE Ret(200, IF resp.body.json = "dict" THEN resp.body ELSE None, n + 1)
         ELSE IF resp.status = 404 THEN Ret(404, None, n + 1)
         ELSE ld_fetch_loop_retrying_all(beh, attempt + 1, n + 1)

\* `for attempt in range(max_attempts):` with n requests issued so far.
RECURSIVE ld_fetch_loop(_, _, _)
ld_fetch_loop(beh, attempt, n) ==
    IF attempt >= max_attempts THEN Ret(0, None, n)
    ELSE LET resp == RespAt(beh, n + 1) IN
         IF resp.kind = "exc" THEN ld_fetch_loop(beh, attempt + 1, n + 1)
         ELSE IF resp.status = 200 THEN
             IF resp.body.json = "garbage" THEN ld_fetch_loop(beh, attempt + 1, n + 1)
             ELSE Ret(200, IF resp.body.json = "dict" THEN resp.body ELSE None, n + 1)
         ELSE IF resp.status = 404 THEN Ret(404, None, n + 1)
         ELSE IF resp.status \in RETRYABLE THEN ld_fetch_loop(beh, attempt + 1, n + 1)
         ELSE Ret(resp.status, None, n + 1)

ld_fetch_definition(beh) == ld_fetch_loop(beh, 0, 0)

\* get_locale_entries: [] unless data is a non-empty object whose locale key
\* maps to a non-empty list; then the elements of it that are objects.
get_locale_entries(data) ==
    IF data.json # "dict" \/ ~(data.other \/ data.sect # "absent") THEN <<>>
    ELSE IF data.sect # "list" \/ data.entries = <<>> THEN <<>>
    ELSE SelectSeq(data.entries, LAMBDA e : e # "bad")

\* strip_definitions: the same entries with the HTML of their texts removed.
strip_entry(e) == e \o ":plain"

strip_definitions(entries) == [k \in 1..Len(entries) |-> strip_entry(entries[k])]

\* process_one.attempt: (status, entries, transient) of one lookup; requests
\* is the number of requests the lookup issued.
attempt(beh) ==
    LET r == ld_fetch_definition(beh) IN
    IF r.status = 200 /\ r.data.json = "dict"
    THEN [status |-> 200, entries |-> strip_definitions(get_locale_entries(r.data)),
          transient |-> FALSE, requests |-> r.requests]
    ELSE IF r.status = 404
    THEN [status |-> 404, entries |-> <<>>, transient |-> FALSE, requests |-> r.requests]
    ELSE [status |-> r.status, entries |-> <<>>, transient |-> TRUE,
          requests |-> r.requests]

\* What process_one returns (the frequency is passed through and left out).
Result(outcome, out_word, original_token, entries) ==
    [outcome |-> outcome, out_word |-> out_word, original_token |-> original_token,
     entries |-> entries]

NoResult == Result("none", "", "", <<>>)

\* ------------------------------------------------------------------ state
VARIABLES
    use_cap,               \* --cap
    MAX_VALIDATED,         \* <<>> for None, <<T>> for --size T
    use_stdin,             \* the input is '-': pipe mode, no output files
    stdout, stderr,        \* bucket lines written to the two streams
    validated_out_lines, rejected_lines, nonexistent_lines, locale_skipped_lines,
    validated_file, rejected_file, nonexistent_file, locale_rejected_file,
    validated_count, processed_count, skipped_count, rejected_count,
    nonexistent_count, last_processed_word,
    main_pc,               \* position of main
    nsub,                  \* len(futures): tasks 1..nsub are submitted
    yielded,               \* futures as_completed has yielded
    fut,                   \* state of each task's future
    loc,                   \* locals of each running check_wiktionary call
    lk_beh1, lk_beh2,      \* classification of one candidate: how the server
                           \* answers the lookup of the first and of the
                           \* capitalized spelling
    lk_reqs,               \* and the requests check_wiktionary's lookups issued
    ploc,                  \* locals of each process_one call
    pres,                  \* what each process_one call returned
    bo_pc, bo_attempt,     \* one fetch_definition call followed through its
    bo_sleeps,             \* retry loop: position, `attempt`, the sleeps so far
    rps,                   \* --rps of wiktionary_locale_dump.py
    clock,                 \* what time.time() returns, in ticks
    next_time,             \* _next_time
    rate_lock,             \* _rate_lock: 0 when free, else the holding worker
    rl,                    \* each worker's position in fetch_definition's loop
    passages,              \* the passages through rate_limit's lock block
    gets,                  \* the requests issued by session.get (a set)
    max_validated,         \* --max-validated of wiktionary_locale_dump.py (0: none)
    dm_pc,                 \* where wiktionary_locale_dump.py's main is
    dm_result,             \* what each worker(t) call of ex.map came to
    dm_taken,              \* results the loop has taken from ex.map
    dm_exc,                \* the task whose exception is propagating (0: none)
    dm_validated,          \* main's `validated`
    dm_out,                \* the records written to the four outputs
    dm_cnt,                \* main's processed, retry, nonexist and rejected
    stats_lock,            \* who holds stats_lock: -1 nobody, 0 main, w a worker
    lk_at,                 \* each thread's write site and how far it has got
    csv_lines,             \* the lines of the input file
    MIN_FREQUENCY,         \* --min-frequency: <<>> (None) or <<f>>
    min_len,               \* --min-len: <<>> (None) or <<n>>
    max_len,               \* --max-len: <<>> (None) or <<n>>
    parse_pc,              \* "idle", "start" or "done"
    parsed,                \* the task list parse_input_csv returned
    ex_tokens,             \* the tokens of the --expr expression
    ex_value,              \* its value by the documented grammar
    ex_tags,               \* the record's tags, as written in the record
    ex_pc,                 \* "idle", "compile", "filter" or "done"
    ex_rpn,                \* what to_rpn returned
    ex_ok                  \* what eval_rpn returned

config == <<use_cap, MAX_VALIDATED, use_stdin>>
buffers == <<validated_out_lines, rejected_lines, nonexistent_lines, locale_skipped_lines>>
files == <<validated_file, rejected_file, nonexistent_file, locale_rejected_file,
          stdout, stderr>>
counters == <<validated_count, processed_count, skipped_count, rejected_count,
              nonexistent_count, last_processed_word>>
mainvars == <<main_pc, nsub, yielded>>
cleansevars == <<config, buffers, files, counters, mainvars, fut, loc>>
lookupvars == <<lk_beh1, lk_beh2, lk_reqs>>
dumpvars == <<ploc, pres>>
backoffvars == <<bo_pc, bo_attempt, bo_sleeps>>
\* What a run of cleanse-dictionary.py's main leaves alone.
ratevars == <<rps, clock, next_time, rate_lock, rl, passages, gets>>
dumpmainvars == <<max_validated, dm_pc, dm_result, dm_taken, dm_exc, dm_validated,
                  dm_out, dm_cnt>>
lockvars == <<stats_lock, lk_at>>
parsevars == <<csv_lines, MIN_FREQUENCY, min_len, max_len, parse_pc, parsed>>
exprvars == <<ex_tokens, ex_value, ex_tags, ex_pc, ex_rpn, ex_ok>>
auxvars == <<backoffvars, ratevars, dumpmainvars, lockvars, parsevars, exprvars>>
vars == <<cleansevars, lookupvars, dumpvars, auxvars>>

Tasks == 1..MaxTasks

NoCount == [processed |-> 0, validated |-> 0, skipped |-> 0, rejected |-> 0,
            nonexistent |-> 0]

\* Locals of a call that is not running.  `cnt` (what this call has added to
\* each shared counter) and `late` (record_validated found the target
\* already reached) are history.
NoLocals ==
    [pc |-> "idle", word |-> "", status1 |-> 0, data1 |-> None,
     status2 |-> 0, data2 |-> None, validated1 |-> FALSE, locale_missing1 |-> FALSE,
     validated2 |-> FALSE, locale_missing2 |-> FALSE, late |-> FALSE,
     reason |-> "", cnt |-> NoCount]

\* Locals of a process_one call that is not running; `queries` (the words
\* looked up, in order) and `reqs` (the requests of each lookup) are history.
NoPLocals ==
    [pc |-> "idle", token |-> "", status1 |-> 0, e1 |-> <<>>, transient1 |-> FALSE,
     status2 |-> 0, e2 |-> <<>>, transient2 |-> FALSE, queries |-> <<>>,
     reqs |-> <<>>]

target_reached ==
    Len(MAX_VALIDATED) > 0 /\ validated_count >= MAX_VALIDATED[1]

\* The state main sets up before any task runs (buffers cleared, counters
\* reset).
FreshRun ==
    /\ use_cap \in BOOLEAN
    /\ MAX_VALIDATED \in {<<>>} \cup { <<n>> : n \in 1..MaxTarget }
    /\ validated_out_lines = <<>> /\ rejected_lines = <<>>
    /\ nonexistent_lines = <<>> /\ locale_skipped_lines = <<>>
    /\ validated_file = <<>> /\ rejected_file = <<>>
    /\ nonexistent_file = <<>> /\ locale_rejected_file = <<>>
    /\ stdout = <<>> /\ stderr = <<>>
    /\ validated_count = 0 /\ processed_count = 0 /\ skipped_count = 0
    /\ rejected_count = 0 /\ nonexistent_count = 0 /\ last_processed_word = ""
    /\ yielded = {}

\* No fetch_definition call is being followed.
NoBackoff == bo_pc = "idle" /\ bo_attempt = 0 /\ bo_sleeps = <<>>

\* No worker of wiktionary_locale_dump.py is being followed.
NoRate ==
    /\ rps = 0 /\ clock = 0 /\ next_time = 0 /\ rate_lock = 0
    /\ rl = <<>> /\ passages = <<>> /\ gets = {}

NoOutput == [validated_out |-> <<>>, r_out |-> <<>>, n_out |-> <<>>, rej_out |-> <<>>]

\* processed = validated = retry = nonexist = rejected = 0 (validated is
\* dm_validated).
NoTally == [processed |-> 0, retry |-> 0, nonexist |-> 0, rejected |-> 0]

\* wiktionary_locale_dump.py's main is not being followed.
NoDumpMain ==
    /\ max_validated = 0 /\ dm_pc = "idle" /\ dm_result = <<>> /\ dm_taken = 0
    /\ dm_exc = 0 /\ dm_validated = 0 /\ dm_out = NoOutput /\ dm_cnt = NoTally

\* No thread is being followed through a write site.
NoLock == stats_lock = -1 /\ lk_at = <<>>

\* No input file is being parsed.
NoParse ==
    /\ csv_lines = <<>> /\ MIN_FREQUENCY = <<>> /\ min_len = <<>> /\ max_len = <<>>
    /\ parse_pc = "idle" /\ parsed = <<>>

\* No filter expression is being evaluated.
NoExpr ==
    /\ ex_tokens = <<>> /\ ex_value = FALSE /\ ex_tags = {}
    /\ ex_pc = "idle" /\ ex_rpn = [ok |-> TRUE, out |-> <<>>] /\ ex_ok = "none"

AuxIdle == NoBackoff /\ NoRate /\ NoDumpMain /\ NoLock /\ NoParse /\ NoExpr

\* A run in file mode (the four buckets are files).  Pipe mode differs in
\* where flush_outputs writes and is followed in the classification of one
\* candidate.
Init ==
    /\ FreshRun /\ use_stdin = FALSE
    /\ AuxIdle
    /\ main_pc = "submit_check" /\ nsub = 0
    /\ fut = [t \in Tasks |-> "none"]
    /\ loc = [t \in Tasks |-> NoLocals]
    /\ lk_beh1 = <<>> /\ lk_beh2 = <<>> /\ lk_reqs = <<0, 0>>
    /\ ploc = [t \in Tasks |-> NoPLocals]
    /\ pres = [t \in Tasks |-> NoResult]

\* ------------------------------------------- cleanse-dictionary.py: workers
running == { t \in Tasks : fut[t] = "running" }
finished(t) == fut[t] \in {"returned", "raised"}

cap_differs(word) == capitalize(word) # word

Bump(c, field) == [c EXCEPT ![field] = @ + 1]

\* Variant of StartTask without the test of the target at the head of
\* check_wiktionary.
StartTaskWithoutTargetTest(t) ==
    /\ fut[t] = "queued"
    /\ \A u \in 1..(t - 1) : fut[u] # "queued"
    /\ Cardinality(running) < Workers
    /\ fut' = [fut EXCEPT ![t] = "running"]
    /\ loc' = [loc EXCEPT ![t].pc = "probe1"]
    /\ UNCHANGED <<config, buffers, files, counters, mainvars>>

\* A pool thread takes the oldest queued task and runs the first lock block
\* of check_wiktionary: "if already hit target validated, skip work".
StartTask(t) ==
    /\ fut[t] = "queued"
    /\ \A u \in 1..(t - 1) : fut[u] # "queued"
    /\ Cardinality(running) < Workers
    /\ fut' = [fut EXCEPT ![t] = "running"]
    /\ loc' = [loc EXCEPT ![t].pc = IF target_reached THEN "ret" ELSE "probe1"]
    /\ UNCHANGED <<config, buffers, files, counters, mainvars>>

\* Variant of after_probe1 that treats a 404 like any other failed status.
after_probe1_404_as_failure(status, data, word) ==
    IF usable_200(status, data) THEN "handle1" ELSE "count_rej"

\* Variant of after_probe1 that tries the capitalized word after any failed
\* first probe.
after_probe1_cap_after_failure(status, data, word) ==
    IF usable_200(status, data) THEN "handle1"
    ELSE IF use_cap /\ cap_differs(word) THEN "probe2B"
    ELSE IF status = 404 THEN "count_ne"
    ELSE "count_rej"

\* Where check_wiktionary goes after the first probe returns.
after_probe1(status, data, word) ==
    IF usable_200(status, data) THEN "handle1"
    ELSE IF status = 404
         THEN IF use_cap /\ cap_differs(word) THEN "probe2B" ELSE "count_ne"
         ELSE "count_rej"

\* status1, data1, url1 = probe(first_word), against a server that behaves
\* as beh.
ProbeFirst(t, beh) ==
    /\ loc[t].pc = "probe1"
    /\ LET r == fetch_definition(beh) IN
         loc' = [loc EXCEPT ![t] =
                   [@ EXCEPT !.status1 = r.status, !.data1 = r.data,
                             !.reason = IF after_probe1(r.status, r.data, loc[t].word) = "count_rej"
                                        THEN reason_of(r.status) ELSE "",
                             !.pc = after_probe1(r.status, r.data, loc[t].word)]]
    /\ UNCHANGED <<config, buffers, files, counters, mainvars, fut>>

Probe1(t) == \E beh \in ServerBehaviours : ProbeFirst(t, beh)

\* Variant of handle_200 whose record_validated appends without testing the
\* target.
handle_200_ignoring_target(data) ==
    IF ~locale_present(data)
    THEN [raised |-> FALSE, ok |-> FALSE, missing |-> TRUE]
    ELSE IF raises_in_extract(data.entries)
    THEN [raised |-> TRUE, ok |-> FALSE, missing |-> FALSE]
    ELSE [raised |-> FALSE, ok |-> TRUE, missing |-> FALSE]

\* handle_200 and, inside it, record_validated: what the call does in the
\* current state.  `raised`: extract_pos_list raises before the lock is
\* taken; `ok`: the line is appended; `missing`: no usable locale section.
handle_200(data) ==
    IF ~locale_present(data)
    THEN [raised |-> FALSE, ok |-> FALSE, missing |-> TRUE]
    ELSE IF raises_in_extract(data.entries)
    THEN [raised |-> TRUE, ok |-> FALSE, missing |-> FALSE]
    ELSE [raised |-> FALSE, ok |-> ~target_reached, missing |-> FALSE]

\* The effect of handle_200(data, out_word) on the shared state and on the
\* future; newloc is the caller's locals when the call returns normally.
Handle(t, data, out_word, newloc) ==
    LET h == handle_200(data) IN
    /\ validated_out_lines' =
         IF h.ok THEN Append(validated_out_lines, validated_csv(t, out_word, data.entries))
         ELSE validated_out_lines
    /\ fut' = IF h.raised THEN [fut EXCEPT ![t] = "raised"] ELSE fut
    /\ loc' = [loc EXCEPT ![t] = IF h.raised THEN NoLocals ELSE newloc]
    /\ UNCHANGED <<config, rejected_lines, nonexistent_lines, locale_skipped_lines,
                   files, counters, mainvars>>

\* validated1, locale_missing1 = handle_200(data1, first_word)
Handle1(t) ==
    /\ loc[t].pc = "handle1"
    /\ LET h == handle_200(loc[t].data1) IN
       Handle(t, loc[t].data1, loc[t].word,
              [loc[t] EXCEPT !.validated1 = h.ok, !.locale_missing1 = h.missing,
                             !.late = ~h.ok /\ ~h.missing, !.pc = "count1"])

\* The lock block that counts the candidate after a 200 (Case A and the
\* capitalized 200 of Case B).
CountBlock(t, ok, missing, nextpc) ==
    /\ processed_count' = processed_count + 1
    /\ last_processed_word' = loc[t].word
    /\ validated_count' = IF ok THEN validated_count + 1 ELSE validated_count
    /\ skipped_count' = IF ~ok /\ missing THEN skipped_count + 1 ELSE skipped_count
    /\ rejected_count' = IF ~ok /\ ~missing THEN rejected_count + 1 ELSE rejected_count
    /\ loc' = [loc EXCEPT ![t] =
                 [@ EXCEPT !.pc = nextpc,
                           !.cnt = Bump(Bump(@, "processed"),
                                        IF ok THEN "validated"
                                        ELSE IF missing THEN "skipped" ELSE "rejected")]]
    /\ UNCHANGED <<config, buffers, files, nonexistent_count, mainvars, fut>>

Count1(t) ==
    /\ loc[t].pc = "count1"
    /\ CountBlock(t, loc[t].validated1, loc[t].locale_missing1,
                  IF loc[t].locale_missing1 THEN "locale_reject"
                  ELSE IF ~loc[t].validated1 THEN "ret"
                  ELSE IF use_cap /\ cap_differs(loc[t].word) THEN "probe2A"
                  ELSE "ret")

\* record_locale_reject(), followed in every caller by a return.
RecordLocaleReject(t) ==
    /\ loc[t].pc = "locale_reject"
    /\ locale_skipped_lines' =
         Append(locale_skipped_lines, [task |-> t, reason |-> "wrong_locale"])
    /\ loc' = [loc EXCEPT ![t].pc = "ret"]
    /\ UNCHANGED <<config, validated_out_lines, rejected_lines, nonexistent_lines,
                   files, counters, mainvars, fut>>

\* Case A, --cap: status2, data2, url2 = probe(cap_word)
ProbeCapA(t, beh) ==
    /\ loc[t].pc = "probe2A"
    /\ LET r == fetch_definition(beh) IN
         loc' = [loc EXCEPT ![t] =
                   [@ EXCEPT !.status2 = r.status, !.data2 = r.data,
                             !.pc = IF usable_200(r.status, r.data)
                                    THEN "handle2A" ELSE "ret"]]
    /\ UNCHANGED <<config, buffers, files, counters, mainvars, fut>>

Probe2A(t) == \E beh \in ServerBehaviours : ProbeCapA(t, beh)

\* Case A, --cap: validated2, locale_missing2 = handle_200(data2, cap_word)
Handle2A(t) ==
    /\ loc[t].pc = "handle2A"
    /\ LET h == handle_200(loc[t].data2) IN
       Handle(t, loc[t].data2, capitalize(loc[t].word),
              [loc[t] EXCEPT !.validated2 = h.ok, !.locale_missing2 = h.missing,
                             !.pc = IF h.missing THEN "skip2A"
                                    ELSE IF h.ok THEN "vcount2A" ELSE "ret"])

\* Case A, --cap, second probe lacks the locale: skipped_count += 1
Skip2A(t) ==
    /\ loc[t].pc = "skip2A"
    /\ skipped_count' = skipped_count + 1
    /\ loc' = [loc EXCEPT ![t] = [@ EXCEPT !.pc = "locale_reject",
                                           !.cnt = Bump(@, "skipped")]]
    /\ UNCHANGED <<config, buffers, files, validated_count, processed_count,
                   rejected_count, nonexistent_count, last_processed_word,
                   mainvars, fut>>

\* Variant of VCount2A that leaves the capitalized line uncounted.
VCount2AUncounted(t) ==
    /\ loc[t].pc = "vcount2A"
    /\ loc' = [loc EXCEPT ![t] = [@ EXCEPT !.pc = "ret"]]
    /\ UNCHANGED <<config, buffers, files, counters, mainvars, fut>>

\* Case A, --cap, second probe validated: validated_count += 1
VCount2A(t) ==
    /\ loc[t].pc = "vcount2A"
    /\ validated_count' = validated_count + 1
    /\ loc' = [loc EXCEPT ![t] = [@ EXCEPT !.pc = "ret",
                                           !.cnt = Bump(@, "validated")]]
    /\ UNCHANGED <<config, buffers, files, skipped_count, processed_count,
                   rejected_count, nonexistent_count, last_processed_word,
                   mainvars, fut>>

\* Where check_wiktionary goes after the capitalized probe of Case B.
after_probe2B(status, data) ==
    IF usable_200(status, data) THEN "handle2B"
    ELSE IF status = 404 THEN "count_ne"
    ELSE "count_rej"

\* Case B, --cap: status2, data2, url2 = probe(cap_word)
ProbeCapB(t, beh) ==
    /\ loc[t].pc = "probe2B"
    /\ LET r == fetch_definition(beh) IN
         loc' = [loc EXCEPT ![t] =
                   [@ EXCEPT !.status2 = r.status, !.data2 = r.data,
                             !.reason = IF after_probe2B(r.status, r.data) = "count_rej"
                                        THEN reason_of(r.status) ELSE "",
                             !.pc = after_probe2B(r.status, r.data)]]
    /\ UNCHANGED <<config, buffers, files, counters, mainvars, fut>>

Probe2B(t) == \E beh \in ServerBehaviours : ProbeCapB(t, beh)

\* Case B, --cap: validated2, locale_missing2 = handle_200(data2, cap_word)
Handle2B(t) ==
    /\ loc[t].pc = "handle2B"
    /\ LET h == handle_200(loc[t].data2) IN
       Handle(t, loc[t].data2, capitalize(loc[t].word),
              [loc[t] EXCEPT !.validated2 = h.ok, !.locale_missing2 = h.missing,
                             !.late = ~h.ok /\ ~h.missing, !.pc = "count2B"])

Count2B(t) ==
    /\ loc[t].pc = "count2B"
    /\ CountBlock(t, loc[t].validated2, loc[t].locale_missing2,
                  IF loc[t].locale_missing2 THEN "locale_reject" ELSE "ret")

\* processed_count += 1; nonexistent_count += 1 (both 404 branches)
CountNonexistent(t) ==
    /\ loc[t].pc = "count_ne"
    /\ processed_count' = processed_count + 1
    /\ last_processed_word' = loc[t].word
    /\ nonexistent_count' = nonexistent_count + 1
    /\ loc' = [loc EXCEPT ![t] =
                 [@ EXCEPT !.pc = "record_ne",
                           !.cnt = Bump(Bump(@, "processed"), "nonexistent")]]
    /\ UNCHANGED <<config, buffers, files, validated_count, skipped_count,
                   rejected_count, mainvars, fut>>

RecordNonexistent(t) ==
    /\ loc[t].pc = "record_ne"
    /\ nonexistent_lines' = Append(nonexistent_lines, [task |-> t, reason |-> ""])
    /\ loc' = [loc EXCEPT ![t].pc = "ret"]
    /\ UNCHANGED <<config, validated_out_lines, rejected_lines, locale_skipped_lines,
                   files, counters, mainvars, fut>>

\* processed_count += 1; rejected_count += 1 (Case C and the error branch of
\* Case B)
CountRejected(t) ==
    /\ loc[t].pc = "count_rej"
    /\ processed_count' = processed_count + 1
    /\ last_processed_word' = loc[t].word
    /\ rejected_count' = rejected_count + 1
    /\ loc' = [loc EXCEPT ![t] =
                 [@ EXCEPT !.pc = "record_rej",
                           !.cnt = Bump(Bump(@, "processed"), "rejected")]]
    /\ UNCHANGED <<config, buffers, files, validated_count, skipped_count,
                   nonexistent_count, mainvars, fut>>

RecordRejected(t) ==
    /\ loc[t].pc = "record_rej"
    /\ rejected_lines' = Append(rejected_lines, [task |-> t, reason |-> loc[t].reason])
    /\ loc' = [loc EXCEPT ![t].pc = "ret"]
    /\ UNCHANGED <<config, validated_out_lines, nonexistent_lines, locale_skipped_lines,
                   files, counters, mainvars, fut>>

\* check_wiktionary returns: the future is done, the thread is free.
Return(t) ==
    /\ loc[t].pc = "ret"
    /\ fut' = [fut EXCEPT ![t] = "returned"]
    /\ loc' = [loc EXCEPT ![t] = NoLocals]
    /\ UNCHANGED <<config, buffers, files, counters, mainvars>>

\* The steps of check_wiktionary other than its lookups.
WorkerStep(t) ==
    \/ StartTask(t) \/ Handle1(t) \/ Count1(t)
    \/ RecordLocaleReject(t)
    \/ Handle2A(t) \/ Skip2A(t) \/ VCount2A(t)
    \/ Handle2B(t) \/ Count2B(t)
    \/ CountNonexistent(t) \/ RecordNonexistent(t)
    \/ CountRejected(t) \/ RecordRejected(t)
    \/ Return(t)

Worker(t) == WorkerStep(t) \/ Probe1(t) \/ Probe2A(t) \/ Probe2B(t)

\* ---------------------------------------------- cleanse-dictionary.py: main
\* `for task in tasks:` ends: the input had nsub candidates.
MainInputExhausted ==
    /\ main_pc = "submit_check"
    /\ main_pc' = "results"
    /\ UNCHANGED <<config, buffers, files, counters, nsub, yielded, fut, loc>>

\* The lock block at the head of the submit loop.
MainSubmitCheck ==
    /\ main_pc = "submit_check"
    /\ nsub < MaxTasks
    /\ main_pc' = IF target_reached THEN "results" ELSE "submit"
    /\ UNCHANGED <<config, buffers, files, counters, nsub, yielded, fut, loc>>

\* futures.append(executor.submit(check_wiktionary, task, ...))
MainSubmit ==
    /\ main_pc = "submit"
    /\ \E w \in InputWords :
         loc' = [loc EXCEPT ![nsub + 1].word = w]
    /\ fut' = [fut EXCEPT ![nsub + 1] = "queued"]
    /\ nsub' = nsub + 1
    /\ main_pc' = "submit_check"
    /\ UNCHANGED <<config, buffers, files, counters, yielded>>

\* Variant of MainNextResult whose except block counts the rejection and
\* not the candidate.
MainNextResultNotProcessed(t) ==
    /\ main_pc = "results"
    /\ t \in 1..nsub /\ t \notin yielded /\ finished(t)
    /\ yielded' = yielded \cup {t}
    /\ main_pc' = "result_check"
    /\ IF fut[t] = "raised"
       THEN /\ rejected_lines' =
                 Append(rejected_lines, [task |-> 0, reason |-> "__THREAD_EXCEPTION__"])
            /\ rejected_count' = rejected_count + 1
       ELSE UNCHANGED <<rejected_lines, rejected_count>>
    /\ UNCHANGED <<config, validated_out_lines, nonexistent_lines, locale_skipped_lines,
                   files, validated_count, skipped_count, nonexistent_count,
                   processed_count, last_processed_word, nsub, fut, loc>>

\* as_completed yields a finished future; future.result() re-raises what the
\* task raised and the except block records it.
MainNextResult(t) ==
    /\ main_pc = "results"
    /\ t \in 1..nsub /\ t \notin yielded /\ finished(t)
    /\ yielded' = yielded \cup {t}
    /\ main_pc' = "result_check"
    /\ IF fut[t] = "raised"
       THEN /\ rejected_lines' =
                 Append(rejected_lines, [task |-> 0, reason |-> "__THREAD_EXCEPTION__"])
            /\ rejected_count' = rejected_count + 1
            /\ processed_count' = processed_count + 1
       ELSE UNCHANGED <<rejected_lines, rejected_count, processed_count>>
    /\ UNCHANGED <<config, validated_out_lines, nonexistent_lines, locale_skipped_lines,
                   files, validated_count, skipped_count, nonexistent_count,
                   last_processed_word, nsub, fut, loc>>

\* as_completed has yielded every future: the result loop ends.
MainResultsExhausted ==
    /\ main_pc = "results"
    /\ yielded = 1..nsub
    /\ main_pc' = "shutdown"
    /\ UNCHANGED <<config, buffers, files, counters, nsub, yielded, fut, loc>>

\* The lock block after each result (break at the target), then `i % 100`.
MainResultCheck ==
    /\ main_pc = "result_check"
    /\ main_pc' = IF target_reached THEN "shutdown"
                  ELSE IF Cardinality(yielded) % FlushEvery = 0 THEN "periodic_flush"
                  ELSE "results"
    /\ UNCHANGED <<config, buffers, files, counters, nsub, yielded, fut, loc>>

\* Variant of flush_outputs that writes the buffers and leaves the validated
\* buffer as it is.
flush_outputs_keeping_validated ==
    /\ validated_file' = validated_file \o validated_out_lines
    /\ nonexistent_file' = nonexistent_file \o nonexistent_lines
    /\ rejected_file' = rejected_file \o rejected_lines
    /\ locale_rejected_file' = locale_rejected_file \o locale_skipped_lines
    /\ validated_out_lines' = validated_out_lines
    /\ nonexistent_lines' = <<>>
    /\ rejected_lines' = <<>>
    /\ locale_skipped_lines' = <<>>
    /\ UNCHANGED <<stdout, stderr>>

\* Variant of flush_outputs that, without output files, writes every buffer
\* to standard output.
flush_outputs_all_to_stdout ==
    /\ IF use_stdin
       THEN /\ stdout' = stdout \o validated_out_lines \o nonexistent_lines
                          \o rejected_lines \o locale_skipped_lines
            /\ UNCHANGED <<stderr, validated_file, nonexistent_file, rejected_file,
                           locale_rejected_file>>
       ELSE /\ validated_file' = validated_file \o validated_out_lines
            /\ nonexistent_file' = nonexistent_file \o nonexistent_lines
            /\ rejected_file' = rejected_file \o rejected_lines
            /\ locale_rejected_file' = locale_rejected_file \o locale_skipped_lines
            /\ UNCHANGED <<stdout, stderr>>
    /\ validated_out_lines' = <<>>
    /\ nonexistent_lines' = <<>>
    /\ rejected_lines' = <<>>
    /\ locale_skipped_lines' = <<>>

\* flush_outputs(): one lock block that drains the four buffers, each to its
\* file, or without files the validated buffer to sys.stdout and the others
\* to sys.stderr.
flush_outputs ==
    /\ IF use_stdin
       THEN /\ stdout' = stdout \o validated_out_lines
            /\ stderr' = stderr \o nonexistent_lines \o rejected_lines
                          \o locale_skipped_lines
            /\ UNCHANGED <<validated_file, nonexistent_file, rejected_file,
                           locale_rejected_file>>
       ELSE /\ validated_file' = validated_file \o validated_out_lines
            /\ nonexistent_file' = nonexistent_file \o nonexistent_lines
            /\ rejected_file' = rejected_file \o rejected_lines
            /\ locale_rejected_file' = locale_rejected_file \o locale_skipped_lines
            /\ UNCHANGED <<stdout, stderr>>
    /\ validated_out_lines' = <<>>
    /\ nonexistent_lines' = <<>>
    /\ rejected_lines' = <<>>
    /\ locale_skipped_lines' = <<>>

\* Variant of MainPeriodicFlush in which main calls flush_outputs inside a
\* `with stats_lock:` block: flush_outputs waits for the lock main holds.
MainPeriodicFlushHoldingLock ==
    /\ main_pc = "periodic_flush"
    /\ main_pc' = "flush_blocked"
    /\ UNCHANGED <<config, buffers, files, counters, nsub, yielded, fut, loc>>

MainPeriodicFlush ==
    /\ main_pc = "periodic_flush"
    /\ flush_outputs
    /\ main_pc' = "results"
    /\ UNCHANGED <<config, counters, nsub, yielded, fut, loc>>

\* Variant of MainShutdown that does not join the pool threads, as
\* shutdown(wait=False) would.
MainShutdownNoWait ==
    /\ main_pc = "shutdown"
    /\ main_pc' = "final_flush"
    /\ UNCHANGED <<config, buffers, files, counters, nsub, yielded, fut, loc>>

\* Leaving `with ThreadPoolExecutor(...)`: shutdown(wait=True) returns when
\* every submitted task has finished.
MainShutdown ==
    /\ main_pc = "shutdown"
    /\ \A t \in 1..nsub : finished(t)
    /\ main_pc' = "final_flush"
    /\ UNCHANGED <<config, buffers, files, counters, nsub, yielded, fut, loc>>

MainFinalFlush ==
    /\ main_pc = "final_flush"
    /\ flush_outputs
    /\ main_pc' = "done"
    /\ UNCHANGED <<config, counters, nsub, yielded, fut, loc>>

Main ==
    \/ MainInputExhausted \/ MainSubmitCheck \/ MainSubmit
    \/ (\E t \in Tasks : MainNextResult(t)) \/ MainResultsExhausted
    \/ MainResultCheck \/ MainPeriodicFlush \/ MainShutdown \/ MainFinalFlush

\* A run of cleanse-dictionary.py.
Next ==
    \/ Main /\ UNCHANGED <<lookupvars, dumpvars, auxvars>>
    \/ \E t \in Tasks : Worker(t) /\ UNCHANGED <<lookupvars, dumpvars, auxvars>>

Spec == Init /\ [][Next]_vars

\* The same run under the least the scheduler and the server guarantee: as
\* long as some thread can take a step (a lookup in flight can return, a
\* thread that is not waiting can go on), some thread does.
SpecLive == Init /\ [][Next]_vars /\ WF_vars(Next)

\* ------------------------------- cleanse-dictionary.py: main, interrupted
\* KeyboardInterrupt reaches the main thread somewhere inside the
\* `with ThreadPoolExecutor(...)` block.  main does not catch it: the block's
\* exit joins the pool threads and the exception then ends the process.
MainInterrupt ==
    /\ main_pc \in {"submit_check", "submit", "results", "result_check"}
    /\ main_pc' = "interrupted"
    /\ UNCHANGED <<config, buffers, files, counters, nsub, yielded, fut, loc>>

\* The pool threads are done and the uncaught exception leaves main.
MainInterruptedExit ==
    /\ main_pc = "interrupted"
    /\ \A t \in 1..nsub : finished(t)
    /\ main_pc' = "aborted"
    /\ UNCHANGED <<config, buffers, files, counters, nsub, yielded, fut, loc>>

NextInterrupt ==
    \/ Next
    \/ (MainInterrupt \/ MainInterruptedExit) /\ UNCHANGED <<lookupvars, dumpvars, auxvars>>

SpecInterrupt == Init /\ [][NextInterrupt]_vars

\* ------------------------------ wiktionary_locale_dump.py: process_one
Lookup(p, word, a) ==
    [p EXCEPT !.queries = Append(@, word), !.reqs = Append(@, a.requests)]

\* Variant of Finish in which the returned list is one list shared by the
\* calls, so that a call's entries follow those of the call before it.
FinishIntoSharedList(t, p, r) ==
    /\ ploc' = [ploc EXCEPT ![t] = [p EXCEPT !.pc = "done"]]
    /\ pres' = [pres EXCEPT ![t] =
                 [r EXCEPT !.entries = (IF t > 1 THEN pres[t - 1].entries ELSE <<>>) \o @]]

Finish(t, p, r) ==
    /\ ploc' = [ploc EXCEPT ![t] = [p EXCEPT !.pc = "done"]]
    /\ pres' = [pres EXCEPT ![t] = r]

\* Variant of PO_Single that files the result under the lowercased word.
PO_SingleLowercased(t, beh) ==
    /\ ploc[t].pc = "attempt1" /\ ~use_cap
    /\ LET query_base == strip_pos_suffix_for_query(ploc[t].token)
           a == attempt(beh)
           p == [Lookup(ploc[t], query_base, a) EXCEPT
                   !.status1 = a.status, !.e1 = a.entries, !.transient1 = a.transient]
       IN Finish(t, p,
            Result(IF a.transient THEN "retry"
                   ELSE IF a.status = 404 THEN "nonexistent"
                   ELSE IF a.entries # <<>> THEN "validated"
                   ELSE "rejected",
                   lower(query_base), ploc[t].token,
                   IF ~a.transient /\ a.status # 404 THEN a.entries ELSE <<>>))

\* `if not cap:` one lookup of query_base decides the outcome.
PO_Single(t, beh) ==
    /\ ploc[t].pc = "attempt1" /\ ~use_cap
    /\ LET query_base == strip_pos_suffix_for_query(ploc[t].token)
           a == attempt(beh)
           p == [Lookup(ploc[t], query_base, a) EXCEPT
                   !.status1 = a.status, !.e1 = a.entries, !.transient1 = a.transient]
       IN Finish(t, p,
            Result(IF a.transient THEN "retry"
                   ELSE IF a.status = 404 THEN "nonexistent"
                   ELSE IF a.entries # <<>> THEN "validated"
                   ELSE "rejected",
                   query_base, ploc[t].token,
                   IF ~a.transient /\ a.status # 404 THEN a.entries ELSE <<>>))

\* --cap: status1, e1, transient1 = attempt(w_lower)
PO_Lower(t, beh) ==
    /\ ploc[t].pc = "attempt1" /\ use_cap
    /\ LET query_base == strip_pos_suffix_for_query(ploc[t].token)
           a == attempt(beh)
           p == [Lookup(ploc[t], lower(query_base), a) EXCEPT
                   !.status1 = a.status, !.e1 = a.entries, !.transient1 = a.transient]
       IN IF a.transient
          THEN Finish(t, p, Result("retry", query_base, ploc[t].token, <<>>))
          ELSE /\ ploc' = [ploc EXCEPT ![t] =
                            [p EXCEPT !.pc = IF a.status = 404 THEN "attempt2_404"
                                             ELSE IF a.entries = <<>> THEN "attempt2_missing"
                                             ELSE "attempt2_merge"]]
               /\ pres' = pres

\* Variant of Second that looks w_cap up once more when the lookup ended
\* transient.
SecondRepeatedOnFailure(t, beh) ==
    LET a == attempt(beh)
        w_cap == upper_first(strip_pos_suffix_for_query(ploc[t].token))
        once == Lookup(ploc[t], w_cap, a)
    IN [(IF a.transient THEN Lookup(once, w_cap, a) ELSE once) EXCEPT
          !.status2 = a.status, !.e2 = a.entries, !.transient2 = a.transient]

\* The second lookup, of w_cap, at one of its three places in process_one.
Second(t, beh) ==
    LET a == attempt(beh) IN
    [Lookup(ploc[t], upper_first(strip_pos_suffix_for_query(ploc[t].token)), a) EXCEPT
       !.status2 = a.status, !.e2 = a.entries, !.transient2 = a.transient]

\* `if status1 == 404:` the capitalized lookup decides.
PO_Cap404(t, beh) ==
    /\ ploc[t].pc = "attempt2_404"
    /\ LET query_base == strip_pos_suffix_for_query(ploc[t].token)
           p == Second(t, beh)
       IN Finish(t, p,
            Result(IF p.transient2 THEN "retry"
                   ELSE IF p.status2 = 404 THEN "nonexistent"
                   ELSE IF p.e2 # <<>> THEN "validated"
                   ELSE "rejected",
                   query_base, ploc[t].token,
                   IF ~p.transient2 /\ p.status2 # 404 THEN p.e2 ELSE <<>>))

\* `if not e1:` the lowercase page lacks the locale.
PO_CapMissing(t, beh) ==
    /\ ploc[t].pc = "attempt2_missing"
    /\ LET query_base == strip_pos_suffix_for_query(ploc[t].token)
           p == Second(t, beh)
       IN Finish(t, p,
            Result(IF p.transient2 THEN "retry"
                   ELSE IF p.e2 # <<>> THEN "validated"
                   ELSE "rejected",
                   query_base, ploc[t].token,
                   IF ~p.transient2 THEN p.e2 ELSE <<>>))

\* Variant of PO_CapMerge that ignores a failed capitalized lookup.
PO_CapMergeIgnoringFailure(t, beh) ==
    /\ ploc[t].pc = "attempt2_merge"
    /\ LET query_base == strip_pos_suffix_for_query(ploc[t].token)
           p == Second(t, beh)
       IN Finish(t, p, Result("validated", query_base, ploc[t].token, p.e1 \o p.e2))

\* The lowercase page has the locale: merged = list(e1) extended by e2.
PO_CapMerge(t, beh) ==
    /\ ploc[t].pc = "attempt2_merge"
    /\ LET query_base == strip_pos_suffix_for_query(ploc[t].token)
           p == Second(t, beh)
       IN Finish(t, p,
            IF p.transient2
            THEN Result("retry", query_base, ploc[t].token, <<>>)
            ELSE Result("validated", query_base, ploc[t].token, p.e1 \o p.e2))

\* ------------------------------------------- classification of one candidate
\* One candidate and one server (lk_beh1 answers the lookup of the first
\* spelling, lk_beh2 that of the capitalized one) given to check_wiktionary,
\* alone in a fresh run, and to process_one.
SecondBehaviours == { <<r>> : r \in Responses }

InitClassify ==
    /\ FreshRun /\ use_stdin \in BOOLEAN
    /\ AuxIdle
    /\ main_pc = "classify" /\ nsub = 1
    /\ fut = [t \in Tasks |-> IF t = 1 THEN "queued" ELSE "none"]
    /\ \E tok \in Tokens :
         /\ loc = [t \in Tasks |->
                    IF t = 1 THEN [NoLocals EXCEPT !.word = normalize_term(tok)]
                    ELSE NoLocals]
         /\ ploc = [t \in Tasks |->
                     IF t = 1 THEN [NoPLocals EXCEPT !.pc = "attempt1", !.token = tok]
                     ELSE NoPLocals]
    /\ pres = [t \in Tasks |-> NoResult]
    /\ lk_beh1 \in ServerBehaviours
    /\ lk_beh2 \in IF use_cap THEN SecondBehaviours ELSE {<<R429>>}
    /\ lk_reqs = <<0, 0>>

ClassifyStep ==
    WorkerStep(1) /\ UNCHANGED <<lookupvars, dumpvars, auxvars>>

ClassifyProbe1 ==
    /\ ProbeFirst(1, lk_beh1)
    /\ lk_reqs' = [lk_reqs EXCEPT ![1] = fetch_definition(lk_beh1).requests]
    /\ UNCHANGED <<lk_beh1, lk_beh2, dumpvars, auxvars>>

ClassifyProbe2A ==
    /\ ProbeCapA(1, lk_beh2)
    /\ lk_reqs' = [lk_reqs EXCEPT ![2] = fetch_definition(lk_beh2).requests]
    /\ UNCHANGED <<lk_beh1, lk_beh2, dumpvars, auxvars>>

ClassifyProbe2B ==
    /\ ProbeCapB(1, lk_beh2)
    /\ lk_reqs' = [lk_reqs EXCEPT ![2] = fetch_definition(lk_beh2).requests]
    /\ UNCHANGED <<lk_beh1, lk_beh2, dumpvars, auxvars>>

ClassifyProcessOne ==
    /\ \/ PO_Single(1, lk_beh1) \/ PO_Lower(1, lk_beh1)
       \/ PO_Cap404(1, lk_beh2) \/ PO_CapMissing(1, lk_beh2) \/ PO_CapMerge(1, lk_beh2)
    /\ UNCHANGED <<cleansevars, lookupvars, auxvars>>

\* The call has returned (or raised): main's final flush.
ClassifyFlush ==
    /\ main_pc = "classify" /\ finished(1)
    /\ flush_outputs
    /\ main_pc' = "done"
    /\ UNCHANGED <<config, counters, nsub, yielded, fut, loc, lookupvars, dumpvars,
                   auxvars>>

NextClassify ==
    \/ ClassifyStep \/ ClassifyProbe1 \/ ClassifyProbe2A \/ ClassifyProbe2B
    \/ ClassifyProcessOne \/ ClassifyFlush

SpecClassify == InitClassify /\ [][NextClassify]_vars

\* --------------------------------- process_one called again on a candidate
\* Three process_one calls, one after the other: call 1 classifies a
\* candidate against a server answering as lk_beh1 / lk_beh2, call 2
\* classifies some candidate against any server, call 3 classifies the
\* candidate of call 1 again against the server of call 1.
Calls == 1..3

InitRepeat ==
    /\ FreshRun /\ MAX_VALIDATED = <<>> /\ use_stdin = FALSE
    /\ AuxIdle
    /\ main_pc = "repeat" /\ nsub = 0
    /\ fut = [t \in Tasks |-> "none"]
    /\ loc = [t \in Tasks |-> NoLocals]
    /\ \E tok \in Tokens, other \in Tokens :
         ploc = [c \in Calls |->
                   [NoPLocals EXCEPT !.pc = "attempt1",
                                     !.token = IF c = 2 THEN other ELSE tok]]
    /\ pres = [c \in Calls |-> NoResult]
    /\ lk_beh1 \in ServerBehaviours
    /\ lk_beh2 \in IF use_cap THEN SecondBehaviours ELSE {<<R429>>}
    /\ lk_reqs = <<0, 0>>

\* One step of call c against a server answering the first lookup as beh1
\* and the capitalized one as beh2.
process_one_step(c, beh1, beh2) ==
    \/ PO_Single(c, beh1) \/ PO_Lower(c, beh1)
    \/ PO_Cap404(c, beh2) \/ PO_CapMissing(c, beh2) \/ PO_CapMerge(c, beh2)

RepeatFirst == process_one_step(1, lk_beh1, lk_beh2)

\* How the server may answer a lookup of the call in between: a page with
\* the locale, no page, a failed request.
BetweenBehaviours ==
    { <<Resp("http", 200, Body("dict", FALSE, "list", <<"nounpl">>))>>,
      <<Resp("http", 404, None)>>,
      <<Resp("exc", 0, None)>> }

RepeatBetween ==
    /\ ploc[1].pc = "done"
    /\ \E beh \in BetweenBehaviours : process_one_step(2, beh, beh)

RepeatAgain ==
    /\ ploc[2].pc = "done"
    /\ process_one_step(3, lk_beh1, lk_beh2)

NextRepeat ==
    (RepeatFirst \/ RepeatBetween \/ RepeatAgain)
    /\ UNCHANGED <<cleansevars, lookupvars, auxvars>>

SpecRepeat == InitRepeat /\ [][NextRepeat]_vars

\* ------------------------- cleanse-dictionary.py: fetch_definition's sleeps
\* 0.8 + random.random() * 0.4 in thousandths: random() is in [0, 1).
Jitters == {800, 1000, 1199}

\* The Retry-After header of a 429 as a server may send it: absent, an HTTP
\* date ("soon": float() raises), or a number of seconds.
RetryAfterHeaders == {"absent", "soon", "0", "2"}

\* `if retry_after:` and float(retry_after) does not raise.
hint_parses(h) == h \in {"0", "2"}

retry_after_ms(h) == IF h = "2" THEN 2000 ELSE 0

Min(a, b) == IF a <= b THEN a ELSE b

RECURSIVE Pow2(_)
Pow2(n) == IF n = 0 THEN 1 ELSE 2 * Pow2(n - 1)

\* min(RATE_LIMIT_MAX_DELAY, RATE_LIMIT_BASE_DELAY * (2 ** attempt)), in ms.
base_delay(attempt_no) ==
    Min(RATE_LIMIT_MAX_DELAY, RATE_LIMIT_BASE_DELAY * Pow2(attempt_no))

\* Variant of sleep_delay that jitters the server's hint too.
sleep_delay_jittering_hint(attempt_no, header, jitter) ==
    IF hint_parses(header) THEN retry_after_ms(header) * jitter
    ELSE base_delay(attempt_no) * jitter

\* The delay slept after the 429 of `attempt`, in microseconds: the header's
\* value as it is, else the base delay times the jitter.
sleep_delay(attempt_no, header, jitter) ==
    IF hint_parses(header) THEN retry_after_ms(header) * 1000
    ELSE base_delay(attempt_no) * jitter

InitBackoff ==
    /\ FreshRun /\ use_stdin = FALSE /\ ~use_cap /\ MAX_VALIDATED = <<>>
    /\ NoRate /\ NoDumpMain /\ NoLock /\ NoParse /\ NoExpr
    /\ main_pc = "fetch" /\ nsub = 0
    /\ fut = [t \in Tasks |-> "none"]
    /\ loc = [t \in Tasks |-> NoLocals]
    /\ lk_beh1 = <<>> /\ lk_beh2 = <<>> /\ lk_reqs = <<0, 0>>
    /\ ploc = [t \in Tasks |-> NoPLocals]
    /\ pres = [t \in Tasks |-> NoResult]
    /\ bo_pc = "request" /\ bo_attempt = 0 /\ bo_sleeps = <<>>

\* A 429 with retries left: sleep, attempt += 1, continue.
FetchRateLimited ==
    /\ bo_pc = "request"
    /\ bo_attempt < RATE_LIMIT_MAX_RETRIES
    /\ \E header \in RetryAfterHeaders, jitter \in Jitters :
         bo_sleeps' = Append(bo_sleeps,
                             [attempt |-> bo_attempt,
                              hinted |-> hint_parses(header),
                              header |-> header,
                              delay |-> sleep_delay(bo_attempt, header, jitter)])
    /\ bo_attempt' = bo_attempt + 1
    /\ bo_pc' = "request"

\* A 429 when attempt >= RATE_LIMIT_MAX_RETRIES: return 429.
FetchGiveUp ==
    /\ bo_pc = "request"
    /\ bo_attempt >= RATE_LIMIT_MAX_RETRIES
    /\ bo_pc' = "returned"
    /\ UNCHANGED <<bo_attempt, bo_sleeps>>

\* Any other answer, or an exception: the call returns without sleeping.
FetchAnswered ==
    /\ bo_pc = "request"
    /\ bo_pc' = "returned"
    /\ UNCHANGED <<bo_attempt, bo_sleeps>>

NextBackoff ==
    (FetchRateLimited \/ FetchGiveUp \/ FetchAnswered)
    /\ UNCHANGED <<cleansevars, lookupvars, dumpvars, ratevars, dumpmainvars, lockvars,
                   parsevars, exprvars>>

SpecBackoff == InitBackoff /\ [][NextBackoff]_vars

\* ----------------------------- wiktionary_locale_dump.py: rate_limit's pacing
\* Time is counted in ticks; time.time() reads `clock`, which never goes
\* back, and time.sleep(d) returns once the clock has advanced by d.
TicksPerSecond == 2
RpsValues == {-1, 0, 1, 2}
\* interval = 1.0 / rps
interval(r) == TicksPerSecond \div r
\* backoff starts at 0.5 and doubles up to 10.0
backoff_ticks(attempt_no) == Min(10 * TicksPerSecond, (TicksPerSecond * Pow2(attempt_no)) \div 2)

RateWorkers == 1..Workers
RateLocals(pc, a, wake, calls) == [pc |-> pc, attempt |-> a, wake |-> wake, calls |-> calls]

\* Each worker is inside one fetch_definition call, at the top of the loop.
InitRate ==
    /\ FreshRun /\ use_stdin = FALSE /\ NoBackoff /\ NoDumpMain /\ NoLock /\ NoParse /\ NoExpr
    /\ main_pc = "rate" /\ nsub = 0
    /\ fut = [t \in Tasks |-> "none"]
    /\ loc = [t \in Tasks |-> NoLocals]
    /\ lk_beh1 = <<>> /\ lk_beh2 = <<>> /\ lk_reqs = <<0, 0>>
    /\ ploc = [t \in Tasks |-> NoPLocals]
    /\ pres = [t \in Tasks |-> NoResult]
    /\ rps \in RpsValues
    /\ clock = 0 /\ next_time = 0 /\ rate_lock = 0
    /\ rl = [w \in RateWorkers |-> RateLocals("rate_limit", 0, 0, 0)]
    /\ passages = <<>> /\ gets = {}

\* Time passes.
Tick ==
    /\ clock < MaxClock
    /\ clock' = clock + 1
    /\ UNCHANGED <<rps, next_time, rate_lock, rl, passages, gets>>

\* rate_limit(rps) with rps <= 0: returns at once.
RateDisabled(w) ==
    /\ rl[w].pc = "rate_limit" /\ rps <= 0
    /\ rl' = [rl EXCEPT ![w].pc = "get", ![w].calls = @ + 1]
    /\ UNCHANGED <<rps, clock, next_time, rate_lock, passages, gets>>

\* Variant of RateEnter that enters the block whoever holds the lock.
RateEnterUnlocked(w) ==
    /\ rl[w].pc = "rate_limit" /\ rps > 0
    /\ IF clock < next_time
       THEN /\ rate_lock' = w
            /\ rl' = [rl EXCEPT ![w].pc = "sleep", ![w].wake = next_time]
            /\ UNCHANGED <<next_time, passages>>
       ELSE /\ next_time' = clock + interval(rps)
            /\ passages' = Append(passages, [worker |-> w, attempt |-> rl[w].attempt,
                                              now |-> clock])
            /\ rl' = [rl EXCEPT ![w].pc = "get", ![w].calls = @ + 1]
            /\ UNCHANGED rate_lock
    /\ UNCHANGED <<rps, clock, gets>>

\* rate_limit(rps) with rps > 0: take _rate_lock and read the clock; when
\* _next_time has passed, set _next_time = now + interval and leave, else
\* sleep until _next_time with the lock held.
RateEnter(w) ==
    /\ rl[w].pc = "rate_limit" /\ rps > 0
    /\ rate_lock = 0
    /\ IF clock < next_time
       THEN /\ rate_lock' = w
            /\ rl' = [rl EXCEPT ![w].pc = "sleep", ![w].wake = next_time]
            /\ UNCHANGED <<next_time, passages>>
       ELSE /\ next_time' = clock + interval(rps)
            /\ passages' = Append(passages, [worker |-> w, attempt |-> rl[w].attempt,
                                              now |-> clock])
            /\ rl' = [rl EXCEPT ![w].pc = "get", ![w].calls = @ + 1]
            /\ UNCHANGED rate_lock
    /\ UNCHANGED <<rps, clock, gets>>

\* The sleep is over: now = time.time(); _next_time = now + interval; the
\* lock is released.
RateWake(w) ==
    /\ rl[w].pc = "sleep"
    /\ clock >= rl[w].wake
    /\ next_time' = clock + interval(rps)
    /\ passages' = Append(passages, [worker |-> w, attempt |-> rl[w].attempt,
                                      now |-> clock])
    /\ rate_lock' = 0
    /\ rl' = [rl EXCEPT ![w].pc = "get", ![w].wake = 0, ![w].calls = @ + 1]
    /\ UNCHANGED <<rps, clock, gets>>

\* session.get answers: 200 or 404 returns; a retryable status or a
\* RequestException sleeps `backoff` and goes round the loop, which ends after
\* the last attempt.
RateGet(w) ==
    /\ rl[w].pc = "get"
    /\ gets' = gets \cup {[worker |-> w, attempt |-> rl[w].attempt, calls |-> rl[w].calls]}
    /\ \E retry \in BOOLEAN :
         rl' = [rl EXCEPT ![w].pc = IF retry THEN "backoff" ELSE "returned",
                          ![w].wake = IF retry THEN clock + backoff_ticks(rl[w].attempt)
                                      ELSE 0]
    /\ UNCHANGED <<rps, clock, next_time, rate_lock, passages>>

\* time.sleep(backoff) is over: the next attempt, or the loop is exhausted.
RateBackoffOver(w) ==
    /\ rl[w].pc = "backoff"
    /\ clock >= rl[w].wake
    /\ rl' = [rl EXCEPT ![w].pc = IF rl[w].attempt + 1 < RateAttempts
                                  THEN "rate_limit" ELSE "returned",
                        ![w].attempt = @ + 1, ![w].wake = 0]
    /\ UNCHANGED <<rps, clock, next_time, rate_lock, passages, gets>>

NextRate ==
    /\ \/ Tick
       \/ \E w \in RateWorkers : RateDisabled(w)
       \/ \E w \in RateWorkers : RateEnter(w)
       \/ \E w \in RateWorkers : RateWake(w)
       \/ \E w \in RateWorkers : RateGet(w)
       \/ \E w \in RateWorkers : RateBackoffOver(w)
    /\ UNCHANGED <<cleansevars, lookupvars, dumpvars, backoffvars, dumpmainvars, lockvars,
                   parsevars, exprvars>>

SpecRate == InitRate /\ [][NextRate]_vars

\* ------------------------------------- wiktionary_locale_dump.py: main's loop
\* What a worker(t) call comes to: one of process_one's outcomes, or an
\* exception that process_one does not handle.
Outcomes == {"VALIDATED", "RETRY", "NONEXISTENT", "REJECTED"}

InitDumpMain ==
    /\ FreshRun /\ use_stdin = FALSE /\ NoBackoff /\ NoRate /\ NoLock /\ NoParse /\ NoExpr
    /\ main_pc = "dump" /\ nsub = 0
    /\ fut = [t \in Tasks |-> "none"]
    /\ loc = [t \in Tasks |-> NoLocals]
    /\ lk_beh1 = <<>> /\ lk_beh2 = <<>> /\ lk_reqs = <<0, 0>>
    /\ ploc = [t \in Tasks |-> NoPLocals]
    /\ pres = [t \in Tasks |-> NoResult]
    /\ max_validated \in 0..MaxTarget
    /\ dm_pc = "map"
    /\ dm_result = [t \in Tasks |-> "pending"]
    /\ dm_taken = 0 /\ dm_exc = 0 /\ dm_validated = 0
    /\ dm_out = NoOutput /\ dm_cnt = NoTally

\* A pool thread runs worker(t): process_one returns an outcome or raises.
DumpWorker(t) ==
    /\ dm_pc \in {"map", "shutdown"}
    /\ dm_result[t] = "pending"
    /\ \E o \in Outcomes \cup {"raised"} : dm_result' = [dm_result EXCEPT ![t] = o]
    /\ UNCHANGED <<max_validated, dm_pc, dm_taken, dm_exc, dm_validated, dm_out, dm_cnt>>

\* The loop is left with calls that have not started: they are cancelled.
DumpCancel(t) ==
    /\ dm_pc = "shutdown"
    /\ dm_result[t] = "pending"
    /\ dm_result' = [dm_result EXCEPT ![t] = "cancelled"]
    /\ UNCHANGED <<max_validated, dm_pc, dm_taken, dm_exc, dm_validated, dm_out, dm_cnt>>

bucket_of(o) ==
    CASE o = "VALIDATED" -> "validated_out"
      [] o = "RETRY" -> "r_out"
      [] o = "NONEXISTENT" -> "n_out"
      [] OTHER -> "rej_out"

\* processed += 1, then the counter of the outcome's branch (validated is
\* kept in dm_validated).
tally(c, o) ==
    [processed |-> c.processed + 1,
     retry |-> IF o = "RETRY" THEN c.retry + 1 ELSE c.retry,
     nonexist |-> IF o = "NONEXISTENT" THEN c.nonexist + 1 ELSE c.nonexist,
     rejected |-> IF o \notin {"VALIDATED", "RETRY", "NONEXISTENT"}
                  THEN c.rejected + 1 ELSE c.rejected]

\* Variant of DumpTake that consumes the results from the last candidate to
\* the first.
DumpTakeInReverse ==
    /\ dm_pc = "map" /\ dm_taken < MaxTasks
    /\ LET t == MaxTasks - dm_taken
           o == dm_result[t]
       IN /\ o # "pending"
          /\ dm_taken' = dm_taken + 1
          /\ IF o = "raised"
             THEN /\ dm_exc' = t /\ dm_pc' = "shutdown"
                  /\ UNCHANGED <<dm_validated, dm_out, dm_cnt>>
             ELSE IF max_validated # 0 /\ dm_validated >= max_validated
             THEN /\ dm_pc' = "shutdown"
                  /\ UNCHANGED <<dm_exc, dm_validated, dm_out, dm_cnt>>
             ELSE /\ dm_out' = [dm_out EXCEPT ![bucket_of(o)] = Append(@, [task |-> t])]
                  /\ dm_validated' = IF o = "VALIDATED" THEN dm_validated + 1
                                     ELSE dm_validated
                  /\ dm_cnt' = tally(dm_cnt, o)
                  /\ UNCHANGED <<dm_pc, dm_exc>>
    /\ UNCHANGED <<max_validated, dm_result>>

\* Variant of DumpTake whose loop body has no test of the target.
DumpTakeWithoutTargetTest ==
    /\ dm_pc = "map" /\ dm_taken < MaxTasks
    /\ LET t == dm_taken + 1
           o == dm_result[t]
       IN /\ o # "pending"
          /\ dm_taken' = t
          /\ IF o = "raised"
             THEN /\ dm_exc' = t /\ dm_pc' = "shutdown"
                  /\ UNCHANGED <<dm_validated, dm_out, dm_cnt>>
             ELSE /\ dm_out' = [dm_out EXCEPT ![bucket_of(o)] = Append(@, [task |-> t])]
                  /\ dm_validated' = IF o = "VALIDATED" THEN dm_validated + 1
                                     ELSE dm_validated
                  /\ dm_cnt' = tally(dm_cnt, o)
                  /\ UNCHANGED <<dm_pc, dm_exc>>
    /\ UNCHANGED <<max_validated, dm_result>>

\* `for ... in ex.map(worker, tasks)`: the next result in input order.  The
\* result of a call that raised is re-raised here and leaves the loop; else
\* the body breaks at the target or writes one record to the outcome's
\* output.
DumpTake ==
    /\ dm_pc = "map" /\ dm_taken < MaxTasks
    /\ LET t == dm_taken + 1
           o == dm_result[t]
       IN /\ o # "pending"
          /\ dm_taken' = t
          /\ IF o = "raised"
             THEN /\ dm_exc' = t /\ dm_pc' = "shutdown"
                  /\ UNCHANGED <<dm_validated, dm_out, dm_cnt>>
             ELSE IF max_validated # 0 /\ dm_validated >= max_validated
             THEN /\ dm_pc' = "shutdown"
                  /\ UNCHANGED <<dm_exc, dm_validated, dm_out, dm_cnt>>
             ELSE /\ dm_out' = [dm_out EXCEPT ![bucket_of(o)] = Append(@, [task |-> t])]
                  /\ dm_validated' = IF o = "VALIDATED" THEN dm_validated + 1
                                     ELSE dm_validated
                  /\ dm_cnt' = tally(dm_cnt, o)
                  /\ UNCHANGED <<dm_pc, dm_exc>>
    /\ UNCHANGED <<max_validated, dm_result>>

\* ex.map is exhausted.
DumpExhausted ==
    /\ dm_pc = "map" /\ dm_taken = MaxTasks
    /\ dm_pc' = "shutdown"
    /\ UNCHANGED <<max_validated, dm_result, dm_taken, dm_exc, dm_validated, dm_out, dm_cnt>>

\* The executor's exit has joined the pool; `except KeyboardInterrupt` does
\* not match a worker's exception; `finally` flushes and closes the outputs;
\* then main prints "Done.", or the exception leaves main.
DumpFinally ==
    /\ dm_pc = "shutdown"
    /\ \A t \in Tasks : dm_result[t] # "pending"
    /\ dm_pc' = IF dm_exc # 0 THEN "raised" ELSE "done"
    /\ UNCHANGED <<max_validated, dm_result, dm_taken, dm_exc, dm_validated, dm_out, dm_cnt>>

NextDumpMain ==
    /\ \/ \E t \in Tasks : DumpWorker(t)
       \/ \E t \in Tasks : DumpCancel(t)
       \/ DumpTake
       \/ DumpExhausted
       \/ DumpFinally
    /\ UNCHANGED <<cleansevars, lookupvars, dumpvars, backoffvars, ratevars, lockvars,
                   parsevars, exprvars>>

SpecDumpMain == InitDumpMain /\ [][NextDumpMain]_vars

\* ------------------------------ cleanse-dictionary.py: stats_lock's blocks
\* The places of cleanse-dictionary.py that write while the pool runs, each
\* with the thread kind that executes it, whether it is inside a
\* `with stats_lock:` block, and what it may write.  A thread's own locals
\* (status1, data1, ...) and main's `futures` list are written outside the
\* lock.  The [DEBUG] lines printed to stderr are output, not state, and are
\* not listed.
Site(name, by, locked, writes) ==
    [name |-> name, by |-> by, locked |-> locked, writes |-> writes]

SharedState ==
    {"validated_count", "processed_count", "skipped_count", "rejected_count",
     "nonexistent_count", "last_processed_word", "validated_out_lines",
     "rejected_lines", "nonexistent_lines", "locale_skipped_lines"}

counted == {"processed_count", "last_processed_word"}

Sites ==
    { Site("record_validated", "worker", TRUE, {"validated_out_lines"}),
      Site("record_locale_reject", "worker", TRUE, {"locale_skipped_lines"}),
      Site("record_nonexistent", "worker", TRUE, {"nonexistent_lines"}),
      Site("record_rejected", "worker", TRUE, {"rejected_lines"}),
      Site("case_A_count", "worker", TRUE,
           counted \cup {"validated_count", "skipped_count", "rejected_count"}),
      Site("case_A_cap_skipped", "worker", TRUE, {"skipped_count"}),
      Site("case_A_cap_validated", "worker", TRUE, {"validated_count"}),
      Site("case_B_cap_count", "worker", TRUE,
           counted \cup {"validated_count", "skipped_count", "rejected_count"}),
      Site("case_B_cap_404", "worker", TRUE, counted \cup {"nonexistent_count"}),
      Site("case_B_cap_error", "worker", TRUE, counted \cup {"rejected_count"}),
      Site("case_B_404", "worker", TRUE, counted \cup {"nonexistent_count"}),
      Site("case_C", "worker", TRUE, counted \cup {"rejected_count"}),
      Site("probe", "worker", FALSE, {"locals"}),
      Site("thread_exception", "main", TRUE,
           {"rejected_lines", "rejected_count", "processed_count"}),
      Site("flush_outputs", "main", TRUE,
           {"validated_out_lines", "nonexistent_lines", "rejected_lines",
            "locale_skipped_lines", "output_files"}),
      Site("submit", "main", FALSE, {"futures"}) }

NoSite == Site("", "", FALSE, {})

\* Thread 0 is main, threads 1..Workers are the pool's.
Threads == 0..Workers
kind(th) == IF th = 0 THEN "main" ELSE "worker"

InitLock ==
    /\ FreshRun /\ use_stdin = FALSE /\ NoBackoff /\ NoRate /\ NoDumpMain /\ NoParse /\ NoExpr
    /\ main_pc = "locks" /\ nsub = 0
    /\ fut = [t \in Tasks |-> "none"]
    /\ loc = [t \in Tasks |-> NoLocals]
    /\ lk_beh1 = <<>> /\ lk_beh2 = <<>> /\ lk_reqs = <<0, 0>>
    /\ ploc = [t \in Tasks |-> NoPLocals]
    /\ pres = [t \in Tasks |-> NoResult]
    /\ stats_lock = -1
    /\ lk_at = [th \in Threads |-> [site |-> NoSite, phase |-> "out", held |-> FALSE]]

\* Variant of EnterSite that enters a `with stats_lock:` block without
\* acquiring the lock.
EnterSiteWithoutLock(th, s) ==
    /\ lk_at[th].phase = "out" /\ s.by = kind(th)
    /\ lk_at' = [lk_at EXCEPT ![th] = [site |-> s, phase |-> "in", held |-> FALSE]]
    /\ UNCHANGED stats_lock

\* The thread reaches site s: a `with stats_lock:` block is entered once the
\* lock is free, and holds it.
EnterSite(th, s) ==
    /\ lk_at[th].phase = "out" /\ s.by = kind(th)
    /\ s.locked => stats_lock = -1
    /\ stats_lock' = IF s.locked THEN th ELSE stats_lock
    /\ lk_at' = [lk_at EXCEPT ![th] = [site |-> s, phase |-> "in", held |-> FALSE]]

\* The thread performs the site's writes (`held`: it holds stats_lock while
\* it writes) and leaves the block, which releases the lock.
WriteAndLeave(th) ==
    /\ lk_at[th].phase = "in"
    /\ lk_at' = [lk_at EXCEPT ![th] = [@ EXCEPT !.phase = "done",
                                               !.held = (stats_lock = th)]]
    /\ stats_lock' = IF stats_lock = th THEN -1 ELSE stats_lock

NextLock ==
    /\ \/ \E th \in Threads, s \in Sites : EnterSite(th, s)
       \/ \E th \in Threads : WriteAndLeave(th)
    /\ UNCHANGED <<cleansevars, lookupvars, dumpvars, backoffvars, ratevars,
                   dumpmainvars, parsevars, exprvars>>

SpecLock == InitLock /\ [][NextLock]_vars

\* ------------------------------------- cleanse-dictionary.py: parse_input_csv
\* A line of the input after strip(): "blank" is empty, "header" contains
\* "term_frequency", "one_field" has no comma, "bad_freq" has a second field
\* that int() rejects, "record" is term,frequency.  The header considered is
\* "term_frequency,1": its fields would parse and its number is low, so the
\* order of the code's tests shows.
CsvLine(k, t, f) == [kind |-> k, term |-> t, freq |-> f]

Terms == {"ab", "ab_NOUN", "abcd"}
Freqs == {1, 5}
Cutoff == 3
LenLimit == 3

CsvLines ==
    { CsvLine("blank", "", 0), CsvLine("header", "term_frequency", 1),
      CsvLine("one_field", "ab", 0), CsvLine("bad_freq", "ab", 0) }
    \cup { CsvLine("record", t, f) : t \in Terms, f \in Freqs }

\* len(word)
word_len(w) == IF w = "abcd" THEN 4 ELSE IF w = "ab_NOUN" THEN 7 ELSE 2

\* (min_len is None or L >= min_len) and (max_len is None or L <= max_len)
length_ok(L, lo, hi) == (lo = <<>> \/ L >= lo[1]) /\ (hi = <<>> \/ L <= hi[1])

\* A task: (word, freq, raw_line).
Task(line) == [word |-> normalize_term(line.term), freq |-> line.freq, line |-> line]

RECURSIVE parse_loop_skipping_low(_, _, _, _, _, _)
\* Variant of parse_loop that passes over a record below the cutoff and goes
\* on reading.
parse_loop_skipping_low(lines, i, tasks, cutoff, lo, hi) ==
    IF i > Len(lines) THEN tasks
    ELSE LET line == lines[i] IN
         IF line.kind # "record" THEN
             parse_loop_skipping_low(lines, i + 1, tasks, cutoff, lo, hi)
         ELSE IF cutoff # <<>> /\ line.freq < cutoff[1] THEN
             parse_loop_skipping_low(lines, i + 1, tasks, cutoff, lo, hi)
         ELSE IF length_ok(word_len(normalize_term(line.term)), lo, hi) THEN
             parse_loop_skipping_low(lines, i + 1, Append(tasks, Task(line)), cutoff, lo, hi)
         ELSE parse_loop_skipping_low(lines, i + 1, tasks, cutoff, lo, hi)

RECURSIVE parse_loop(_, _, _, _, _, _)
\* The `for line in f` loop from line i on, with the tasks gathered so far.
parse_loop(lines, i, tasks, cutoff, lo, hi) ==
    IF i > Len(lines) THEN tasks
    ELSE LET line == lines[i] IN
         IF line.kind = "blank" THEN parse_loop(lines, i + 1, tasks, cutoff, lo, hi)
         ELSE IF line.kind = "header" THEN parse_loop(lines, i + 1, tasks, cutoff, lo, hi)
         ELSE IF line.kind = "one_field" THEN parse_loop(lines, i + 1, tasks, cutoff, lo, hi)
         ELSE IF line.kind = "bad_freq" THEN parse_loop(lines, i + 1, tasks, cutoff, lo, hi)
         ELSE IF cutoff # <<>> /\ line.freq < cutoff[1] THEN tasks
         ELSE IF length_ok(word_len(normalize_term(line.term)), lo, hi) THEN
             parse_loop(lines, i + 1, Append(tasks, Task(line)), cutoff, lo, hi)
         ELSE parse_loop(lines, i + 1, tasks, cutoff, lo, hi)

parse_input_csv(lines, cutoff, lo, hi) == parse_loop(lines, 1, <<>>, cutoff, lo, hi)

InitParse ==
    /\ FreshRun /\ use_stdin = FALSE /\ NoBackoff /\ NoRate /\ NoDumpMain /\ NoLock
    /\ NoExpr
    /\ main_pc = "parse" /\ nsub = 0
    /\ fut = [t \in Tasks |-> "none"]
    /\ loc = [t \in Tasks |-> NoLocals]
    /\ lk_beh1 = <<>> /\ lk_beh2 = <<>> /\ lk_reqs = <<0, 0>>
    /\ ploc = [t \in Tasks |-> NoPLocals]
    /\ pres = [t \in Tasks |-> NoResult]
    /\ csv_lines \in UNION { [1..n -> CsvLines] : n \in 0..MaxLines }
    /\ MIN_FREQUENCY \in {<<>>, <<Cutoff>>}
    /\ min_len \in {<<>>, <<LenLimit>>}
    /\ max_len \in {<<>>, <<LenLimit>>}
    /\ parse_pc = "start" /\ parsed = <<>>

ParseInput ==
    /\ parse_pc = "start"
    /\ parsed' = parse_input_csv(csv_lines, MIN_FREQUENCY, min_len, max_len)
    /\ parse_pc' = "done"
    /\ UNCHANGED <<csv_lines, MIN_FREQUENCY, min_len, max_len>>

NextParse ==
    /\ ParseInput
    /\ UNCHANGED <<cleansevars, lookupvars, dumpvars, backoffvars, ratevars,
                   dumpmainvars, lockvars, exprvars>>

SpecParse == InitParse /\ [][NextParse]_vars

\* ------------------------------------------- extract_words.py: expressions
\* Tag operands as written in an expression, and tags as written in a record.
Operands == {"noun", "VERB"}
RecordTags == {"Noun", "verb"}

\* str.upper()
upper(t) == IF t \in {"noun", "Noun", "NOUN"} THEN "NOUN" ELSE "VERB"

\* The sets of upper-cased tags a record may have.
TagSets == SUBSET { upper(t) : t \in RecordTags }

\* The documented grammar, loosest first:  or := and | and '|' or;
\* and := not | not '&' and;  not := atom | '^' not;  atom := TAG | '(' or ')'.
\* A table g holds, per nonterminal, the pairs <<tokens, value>> of the
\* expressions derived from it; the value of an expression is the set of
\* the tag sets for which it is true.  Derive(g, n) applies every production
\* once to the expressions of g, keeping those of at most n tokens.
NoExprs == [atom |-> {}, neg |-> {}, conj |-> {}, disj |-> {}]

Derive(g, n) ==
    LET atom == { <<<<t>>, { T \in TagSets : upper(t) \in T }>> : t \in Operands }
                \cup { <<(<<"(">> \o e[1]) \o <<")">>, e[2]>> :
                         e \in { x \in g.disj : Len(x[1]) + 2 <= n } }
        neg  == atom \cup { <<<<"^">> \o e[1], TagSets \ e[2]>> :
                               e \in { x \in g.neg : Len(x[1]) + 1 <= n } }
        conj == neg \cup UNION {
                    { <<(a[1] \o <<"&">>) \o b[1], a[2] \cap b[2]>> :
                        b \in { x \in g.conj : Len(a[1]) + 1 + Len(x[1]) <= n } } :
                    a \in g.neg }
        disj == conj \cup UNION {
                    { <<(a[1] \o <<"|">>) \o b[1], a[2] \cup b[2]>> :
                        b \in { x \in g.disj : Len(a[1]) + 1 + Len(x[1]) <= n } } :
                    a \in g.conj }
    IN  [atom |-> { e : e \in atom }, neg |-> { e : e \in neg },
         conj |-> { e : e \in conj }, disj |-> { e : e \in disj }]

RECURSIVE Derived(_, _)
\* k rounds of derivation: every expression whose derivation nests at most k deep.
Derived(k, n) == IF k = 0 THEN NoExprs ELSE Derive(Derived(k - 1, n), n)

\* An expression of n tokens nests at most n deep.
WellFormed(n) == Derived(n, n).disj

\* Variant of prec in which '&' and '|' bind equally.
prec_flat(op) == IF op = "^" THEN 3 ELSE 2

\* prec = {"^": 3, "&": 2, "|": 1}
prec(op) == IF op = "^" THEN 3 ELSE IF op = "&" THEN 2 ELSE 1

right_assoc == {"^"}

Rpn(ok, out) == [ok |-> ok, out |-> out]
ExprError == Rpn(FALSE, <<>>)

Pop(stack) == SubSeq(stack, 1, Len(stack) - 1)
Top(stack) == stack[Len(stack)]

RECURSIVE pop_operators(_, _, _)
\* to_rpn's `while stack:` loop for an operator token: [output, stack] after it.
pop_operators(output, stack, tok) ==
    IF stack = <<>> \/ Top(stack) = "(" THEN <<output, stack>>
    ELSE IF \/ prec(Top(stack)) > prec(tok)
            \/ (prec(Top(stack)) = prec(tok) /\ tok \notin right_assoc)
         THEN pop_operators(Append(output, Top(stack)), Pop(stack), tok)
         ELSE <<output, stack>>

RECURSIVE pop_to_paren(_, _)
\* to_rpn's loop for ")": pops up to the nearest "(".
pop_to_paren(output, stack) ==
    IF stack # <<>> /\ Top(stack) # "(" THEN pop_to_paren(Append(output, Top(stack)), Pop(stack))
    ELSE <<output, stack>>

RECURSIVE drain(_, _)
\* to_rpn's final `while stack:` loop.
drain(output, stack) ==
    IF stack = <<>> THEN Rpn(TRUE, output)
    ELSE IF Top(stack) \in {"(", ")"} THEN ExprError
    ELSE drain(Append(output, Top(stack)), Pop(stack))

RECURSIVE to_rpn_loop(_, _, _, _)
to_rpn_loop(tokens, i, output, stack) ==
    IF i > Len(tokens) THEN drain(output, stack)
    ELSE LET tok == tokens[i] IN
         IF tok \notin {"^", "&", "|", "(", ")"} THEN
             to_rpn_loop(tokens, i + 1, Append(output, tok), stack)
         ELSE IF tok \in {"^", "&", "|"} THEN
             LET r == pop_operators(output, stack, tok) IN
             to_rpn_loop(tokens, i + 1, r[1], Append(r[2], tok))
         ELSE IF tok = "(" THEN
             to_rpn_loop(tokens, i + 1, output, Append(stack, tok))
         ELSE LET r == pop_to_paren(output, stack) IN
              IF r[2] = <<>> THEN ExprError
              ELSE to_rpn_loop(tokens, i + 1, r[1], Pop(r[2]))

to_rpn(tokens) == to_rpn_loop(tokens, 1, <<>>, <<>>)

\* eval_token for a TAG operand.
eval_token(tok, tagset_upper) == upper(tok) \in tagset_upper

RECURSIVE eval_rpn_loop(_, _, _, _)
\* eval_rpn from token i on with the given stack of booleans: "True",
\* "False" or "ExprError".
eval_rpn_loop(rpn, i, stack, tagset_upper) ==
    IF i > Len(rpn) THEN
        IF Len(stack) # 1 THEN "ExprError"
        ELSE IF stack[1] THEN "True" ELSE "False"
    ELSE LET tok == rpn[i] IN
         IF tok = "^" THEN
             IF stack = <<>> THEN "ExprError"
             ELSE eval_rpn_loop(rpn, i + 1, Append(Pop(stack), ~Top(stack)), tagset_upper)
         ELSE IF tok \in {"&", "|"} THEN
             IF Len(stack) < 2 THEN "ExprError"
             ELSE LET b == Top(stack)
                      a == Top(Pop(stack))
                  IN  eval_rpn_loop(rpn, i + 1,
                          Append(Pop(Pop(stack)), IF tok = "&" THEN a /\ b ELSE a \/ b),
                          tagset_upper)
         ELSE eval_rpn_loop(rpn, i + 1, Append(stack, eval_token(tok, tagset_upper)),
                            tagset_upper)

eval_rpn(rpn, tagset_upper) == eval_rpn_loop(rpn, 1, <<>>, tagset_upper)

InitExpr ==
    /\ FreshRun /\ use_stdin = FALSE /\ NoBackoff /\ NoRate /\ NoDumpMain /\ NoLock
    /\ NoParse
    /\ main_pc = "expr" /\ nsub = 0
    /\ fut = [t \in Tasks |-> "none"]
    /\ loc = [t \in Tasks |-> NoLocals]
    /\ lk_beh1 = <<>> /\ lk_beh2 = <<>> /\ lk_reqs = <<0, 0>>
    /\ ploc = [t \in Tasks |-> NoPLocals]
    /\ pres = [t \in Tasks |-> NoResult]
    /\ \E e \in WellFormed(MaxExprLen) :
         /\ ex_tokens = e[1]
         /\ ex_tags \in SUBSET RecordTags
         /\ ex_value = ({ upper(t) : t \in ex_tags } \in e[2])
    /\ ex_pc = "compile" /\ ex_rpn = Rpn(TRUE, <<>>) /\ ex_ok = "none"

\* main: rpn = compile_expr(args.expr); an ExprError exits with status 2.
CompileExpr ==
    /\ ex_pc = "compile"
    /\ ex_rpn' = to_rpn(ex_tokens)
    /\ ex_pc' = IF to_rpn(ex_tokens).ok THEN "filter" ELSE "exit2"
    /\ UNCHANGED <<ex_tokens, ex_value, ex_tags, ex_ok>>

\* main's loop body for one record: tagset_upper, then passes_filters.
FilterRecord ==
    /\ ex_pc = "filter"
    /\ ex_ok' = eval_rpn(ex_rpn.out, { upper(t) : t \in ex_tags })
    /\ ex_pc' = "done"
    /\ UNCHANGED <<ex_tokens, ex_value, ex_tags, ex_rpn>>

NextExpr ==
    /\ (CompileExpr \/ FilterRecord)
    /\ UNCHANGED <<cleansevars, lookupvars, dumpvars, backoffvars, ratevars,
                   dumpmainvars, lockvars, parsevars>>

SpecExpr == InitExpr /\ [][NextExpr]_vars

\* ------------------------------------------------------------------ claims
\* What a bucket has received so far: what was flushed, then what is buffered.
validated_all == validated_file \o validated_out_lines
rejected_all == rejected_file \o rejected_lines
nonexistent_all == nonexistent_file \o nonexistent_lines
locale_rejected_all == locale_rejected_file \o locale_skipped_lines

\* The lines of seq that candidate t's call appended.
Count(seq, t) == Cardinality({ k \in 1..Len(seq) : seq[k].task = t })

lines_of(t) ==
    Count(validated_all, t) + Count(rejected_all, t)
    + Count(nonexistent_all, t) + Count(locale_rejected_all, t)

\* C1: with a target T configured, validated_count never exceeds T and no
\* more than T lines are ever appended to validated_out_lines.
C1_TargetNeverExceeded ==
    Len(MAX_VALIDATED) > 0 =>
        /\ validated_count <= MAX_VALIDATED[1]
        /\ Len(validated_all) <= MAX_VALIDATED[1]

\* C2: a candidate for which check_wiktionary has incremented
\* processed_count has, when the call returns, exactly one line across the
\* four buckets.
C2_ExactlyOneLine ==
    \A t \in Tasks :
        (loc[t].pc = "ret" /\ loc[t].cnt.processed > 0) => lines_of(t) = 1

\* C3: a latecomer (200 with the locale present, record_validated finds the
\* target already reached) is a no-op: no line in any bucket, and none of
\* validated_count, rejected_count, skipped_count, nonexistent_count is
\* incremented for it.
C3_LatecomerNoOp ==
    \A t \in Tasks :
        (loc[t].pc = "ret" /\ loc[t].late) =>
            /\ lines_of(t) = 0
            /\ loc[t].cnt.validated = 0 /\ loc[t].cnt.rejected = 0
            /\ loc[t].cnt.skipped = 0 /\ loc[t].cnt.nonexistent = 0

IsPrefix(a, b) == Len(a) <= Len(b) /\ SubSeq(b, 1, Len(a)) = a

\* Nothing a bucket has received is ever dropped or rewritten.
lines_kept ==
    /\ IsPrefix(validated_all, validated_all')
    /\ IsPrefix(rejected_all, rejected_all')
    /\ IsPrefix(nonexistent_all, nonexistent_all')
    /\ IsPrefix(locale_rejected_all, locale_rejected_all')

\* In-flight lookups are not cancelled: the final flush runs only when every
\* submitted call has finished, it loses no line, and it leaves no line
\* buffered.
in_flight_completes_and_is_flushed ==
    /\ lines_kept
    /\ \A t \in Tasks : fut[t] = "running" => fut'[t] \in {"running", "returned", "raised"}
    /\ main_pc' \in {"final_flush", "done"} => \A t \in 1..nsub' : fut'[t] \in {"returned", "raised"}
    /\ main_pc' = "done" =>
          /\ validated_out_lines' = <<>> /\ rejected_lines' = <<>>
          /\ nonexistent_lines' = <<>> /\ locale_skipped_lines' = <<>>

\* C4 (as stated): once validated_count has reached MAX_VALIDATED the
\* orchestrator submits no further candidate; lookups in flight are not
\* cancelled, run to completion, and their lines are written by the final
\* flush.
C4_NoSubmitOnceTargetReached ==
    [][ /\ target_reached => nsub' = nsub
        /\ in_flight_completes_and_is_flushed ]_vars

\* C4 (amended): once the orchestrator's check at the head of the submit loop
\* has seen the target reached it submits no further candidate (the one
\* candidate whose check passed before the target was reached may still be
\* submitted after it); a call that starts once the target is reached returns
\* without a lookup; lookups in flight are not cancelled, run to completion,
\* and their lines are written by the final flush.
C4_NoSubmitAfterCheckSeesTarget ==
    [][ /\ (target_reached /\ main_pc # "submit") =>
              (nsub' = nsub /\ main_pc' # "submit")
        /\ \A t \in Tasks :
              (target_reached /\ fut[t] = "queued" /\ fut'[t] = "running") =>
                  loc'[t].pc = "ret"
        /\ in_flight_completes_and_is_flushed ]_vars

\* The target is reached, the result loop has left, and a lookup that was in
\* flight is about to record its Nonexistent line.
C4_Witness ==
    /\ target_reached
    /\ main_pc = "shutdown"
    /\ \E t \in Tasks : fut[t] = "running" /\ loc[t].pc = "record_ne"

\* C5: every submitted task whose check_wiktionary raised has, when the run
\* is over, exactly one "__THREAD_EXCEPTION__" line in the retry bucket (and
\* with it one increment of rejected_count and of processed_count).
thread_exception_lines ==
    Cardinality({ k \in 1..Len(rejected_all) :
                    rejected_all[k].reason = "__THREAD_EXCEPTION__" })

C5_EveryWorkerExceptionRecorded ==
    main_pc = "done" =>
        thread_exception_lines = Cardinality({ t \in 1..nsub : fut[t] = "raised" })

\* ---------------------------------------- claims about the classification
\* The lines of the four buckets that the one candidate's call appended.
bucket_lines ==
    [validated |-> Count(validated_all, 1), wrong_locale |-> Count(locale_rejected_all, 1),
     nonexistent |-> Count(nonexistent_all, 1), retry |-> Count(rejected_all, 1)]

OneLineIn(bucket) ==
    bucket_lines = [[validated |-> 0, wrong_locale |-> 0, nonexistent |-> 0, retry |-> 0]
                      EXCEPT ![bucket] = 1]

\* check_wiktionary has returned / process_one has returned.
cw_returned == loc[1].pc = "ret"
po_returned == ploc[1].pc = "done"

\* A 200 whose object has a usable section of the locale.
good_200(status, data) ==
    status = 200 /\ locale_present(data) /\ ~raises_in_extract(data.entries)

tags_of(data) == validated_csv(1, "", data.entries).tags

\* C6: in cap mode, when both the lowercase and the capitalized lookup return
\* 200 with a non-empty locale section, each classifier produces exactly one
\* Validated record, filed under the lowercase spelling, whose content is the
\* union of the two results in first-seen order without duplicates.
C6_CapMergeIsOneDedupedRecord ==
    use_cap =>
      /\ ( /\ cw_returned
           /\ good_200(loc[1].status1, loc[1].data1)
           /\ good_200(loc[1].status2, loc[1].data2) ) =>
             /\ OneLineIn("validated")
             /\ \A k \in 1..Len(validated_all) :
                  /\ validated_all[k].word = lower(loc[1].word)
                  /\ validated_all[k].tags =
                       dedupe(tags_of(loc[1].data1) \o tags_of(loc[1].data2), {})
      /\ ( /\ po_returned
           /\ ploc[1].status1 = 200 /\ ploc[1].e1 # <<>>
           /\ ploc[1].status2 = 200 /\ ploc[1].e2 # <<>> ) =>
             /\ pres[1].outcome = "validated"
             /\ pres[1].out_word = lower(strip_pos_suffix_for_query(ploc[1].token))
             /\ pres[1].entries = dedupe(ploc[1].e1 \o ploc[1].e2, {})

\* process_one in cap mode has made its second lookup after a lowercase
\* lookup that returned 200 with a non-empty locale section.
po_lower_validated ==
    /\ use_cap /\ po_returned
    /\ ploc[1].status1 = 200 /\ ploc[1].e1 # <<>>
    /\ Len(ploc[1].queries) = 2

\* C7 (as stated): in process_one with cap mode on, after a lowercase lookup
\* that returned 200 with a non-empty locale section, a capitalized probe that
\* returns 404 or ends in a transient error leaves the outcome Validated with
\* exactly the lowercase entries.
C7_CapFailureNeverDowngrades ==
    (po_lower_validated /\ (ploc[1].status2 = 404 \/ ploc[1].transient2)) =>
        /\ pres[1].outcome = "validated"
        /\ pres[1].entries = ploc[1].e1

\* C7 (amended): after such a lowercase lookup, a capitalized probe that
\* returns 404 leaves the outcome Validated with exactly the lowercase
\* entries; one that ends in a transient error (retries exhausted, or a
\* status other than 200 and 404, or a 200 that is not an object) makes the
\* outcome Retry with no entries.
C7_Cap404KeepsLowerTransientRetries ==
    po_lower_validated =>
        /\ ploc[1].status2 = 404 =>
             (pres[1].outcome = "validated" /\ pres[1].entries = ploc[1].e1)
        /\ ploc[1].transient2 =>
             (pres[1].outcome = "retry" /\ pres[1].entries = <<>>)
        /\ pres[1].out_word = strip_pos_suffix_for_query(ploc[1].token)

C7_Witness == po_lower_validated /\ ploc[1].transient2 /\ pres[1].outcome = "retry"

\* C8: for both classifiers, with cap mode off a candidate whose single
\* lookup returns 404 is Nonexistent (one line in the nonexistent bucket,
\* nonexistent counter +1); with cap mode on a candidate whose lowercase and
\* capitalized lookups both return 404 is Nonexistent too.
C8_NotFoundIsNonexistent ==
    /\ ( /\ cw_returned /\ loc[1].status1 = 404
         /\ (use_cap => loc[1].status2 = 404) ) =>
           /\ OneLineIn("nonexistent")
           /\ nonexistent_count = 1 /\ processed_count = 1
           /\ validated_count = 0 /\ skipped_count = 0 /\ rejected_count = 0
    /\ ( /\ po_returned /\ ploc[1].status1 = 404
         /\ (use_cap => ploc[1].status2 = 404) ) =>
           (pres[1].outcome = "nonexistent" /\ pres[1].entries = <<>>)

C8_Witness ==
    /\ use_cap /\ cw_returned /\ po_returned
    /\ loc[1].status1 = 404 /\ loc[1].status2 = 404
    /\ ploc[1].status1 = 404 /\ ploc[1].status2 = 404
    /\ Len(nonexistent_lines) = 1

\* A 200 with a JSON object in which the locale key is absent (the object
\* with no keys included) or maps to an empty list.
locale_absent_or_empty(body) ==
    /\ body.json = "dict"
    /\ body.sect = "absent" \/ (body.sect = "list" /\ body.entries = <<>>)

last_response(beh) == beh[Len(beh)]

\* C9: with cap mode off, for both classifiers, a lookup that returns 200
\* with a JSON object in which the locale key is absent (the empty object
\* included) or maps to an empty list is Rejected/WrongLocale: one line in
\* the wrong-locale bucket and none in the other three.
C9_MissingLocaleIsWrongLocale ==
    ( /\ ~use_cap
      /\ last_response(lk_beh1).kind = "http" /\ last_response(lk_beh1).status = 200
      /\ locale_absent_or_empty(last_response(lk_beh1).body) ) =>
        /\ cw_returned => OneLineIn("wrong_locale")
        /\ po_returned => pres[1].outcome = "rejected"

no_hint_so_far == \A k \in 1..Len(bo_sleeps) : ~bo_sleeps[k].hinted

\* C11: absent a Retry-After hint, the delays slept over attempts
\* 0..RATE_LIMIT_MAX_RETRIES-1 are non-decreasing, each is at most
\* RATE_LIMIT_MAX_DELAY, and each lies within 20% of its base value
\* min(RATE_LIMIT_MAX_DELAY, RATE_LIMIT_BASE_DELAY * 2^attempt).
C11_BackoffMonotoneCappedJittered ==
    no_hint_so_far =>
        \A k \in 1..Len(bo_sleeps) :
            /\ bo_sleeps[k].attempt = k - 1 /\ k <= RATE_LIMIT_MAX_RETRIES
            /\ k > 1 => bo_sleeps[k - 1].delay <= bo_sleeps[k].delay
            /\ bo_sleeps[k].delay <= RATE_LIMIT_MAX_DELAY * 1000
            /\ bo_sleeps[k].delay >= 800 * base_delay(k - 1)
            /\ bo_sleeps[k].delay <= 1200 * base_delay(k - 1)

bucket_step(w, b, w2, b2) ==
    \/ w2 = w /\ b2 = b
    \/ w2 = w /\ Len(b2) = Len(b) + 1 /\ SubSeq(b2, 1, Len(b)) = b
    \/ w2 = w \o b /\ b2 = <<>>

a_flush_returns ==
    main_pc \in {"periodic_flush", "final_flush"} /\ main_pc' # main_pc

\* C13: under any interleaving of flush_outputs with the workers' record
\* operations, every line appended to a buffer is written to its bucket's
\* destination exactly once, and when flush_outputs returns the lines it wrote
\* are no longer in the buffers.
C13_FlushWritesEachLineOnce ==
    [][ /\ bucket_step(validated_file, validated_out_lines,
                       validated_file', validated_out_lines')
        /\ bucket_step(rejected_file, rejected_lines, rejected_file', rejected_lines')
        /\ bucket_step(nonexistent_file, nonexistent_lines,
                       nonexistent_file', nonexistent_lines')
        /\ bucket_step(locale_rejected_file, locale_skipped_lines,
                       locale_rejected_file', locale_skipped_lines')
        /\ a_flush_returns =>
             /\ validated_out_lines' = <<>> /\ rejected_lines' = <<>>
             /\ nonexistent_lines' = <<>> /\ locale_skipped_lines' = <<>>
             /\ validated_file' = validated_all /\ rejected_file' = rejected_all
             /\ nonexistent_file' = nonexistent_all
             /\ locale_rejected_file' = locale_rejected_all
        /\ main_pc' = "done" =>
             /\ validated_out_lines' = <<>> /\ rejected_lines' = <<>>
             /\ nonexistent_lines' = <<>> /\ locale_skipped_lines' = <<>> ]_vars

\* A periodic flush has written a line while another worker is between its
\* count block and its record operation.
C13_Witness ==
    /\ main_pc = "results"
    /\ Len(validated_file) + Len(nonexistent_file) + Len(rejected_file) > 0
    /\ \E t \in Tasks :
         fut[t] = "running" /\ loc[t].pc \in {"record_ne", "record_rej", "locale_reject"}

run_ended == main_pc \in {"done", "aborted"}

\* C14: a final flush is executed on every way the run can end (normal
\* completion, early stop at the target, interruption of the orchestrator):
\* when the run has ended, every line recorded during it has been written to
\* its destination and none is left in a buffer.
C14_EveryEndingFlushes ==
    run_ended =>
        /\ validated_out_lines = <<>> /\ rejected_lines = <<>>
        /\ nonexistent_lines = <<>> /\ locale_skipped_lines = <<>>

is_validated_line(line) == "tags" \in DOMAIN line

\* C15: in pipe mode every validated line is written to standard output and
\* every line of the nonexistent, retry and wrong-locale buckets to standard
\* error; no other line reaches standard output, no validated line reaches
\* standard error.
C15_PipeModeStreams ==
    [][ use_stdin =>
          /\ \A k \in 1..Len(stdout') : is_validated_line(stdout'[k])
          /\ \A k \in 1..Len(stderr') : ~is_validated_line(stderr'[k])
          /\ (main_pc = "classify" /\ main_pc' = "done") =>
               /\ Len(stdout') = Len(validated_out_lines)
               /\ \A k \in 1..Len(validated_out_lines) :
                    \E j \in 1..Len(stdout') : stdout'[j] = validated_out_lines[k]
               /\ Len(stderr') = Len(nonexistent_lines) + Len(rejected_lines)
                                 + Len(locale_skipped_lines)
               /\ \A k \in 1..Len(nonexistent_lines) :
                    \E j \in 1..Len(stderr') : stderr'[j] = nonexistent_lines[k]
               /\ \A k \in 1..Len(rejected_lines) :
                    \E j \in 1..Len(stderr') : stderr'[j] = rejected_lines[k]
               /\ \A k \in 1..Len(locale_skipped_lines) :
                    \E j \in 1..Len(stderr') : stderr'[j] = locale_skipped_lines[k]
               /\ validated_file' = <<>> /\ rejected_file' = <<>>
               /\ nonexistent_file' = <<>> /\ locale_rejected_file' = <<>> ]_vars

\* A pipe-mode run has flushed a validated line to standard output and a
\* line of another bucket to standard error.
C15_Witness ==
    /\ use_stdin /\ main_pc = "done"
    /\ Len(stdout) > 0 /\ Len(stderr) > 0

\* ------------------------------------------------ claims about rate_limit
passed_before(g) ==
    /\ g.calls = g.attempt + 1
    /\ rps > 0 => \E k \in 1..Len(passages) :
                    /\ passages[k].worker = g.worker
                    /\ passages[k].attempt = g.attempt

\* C16: with rps > 0 every lookup attempt, first or retry, of any worker has
\* passed rate_limit, and two consecutive passages are at least 1/rps apart;
\* with rps <= 0 rate_limit never blocks and changes no state.
C16_RateLimitPacesEveryAttempt ==
    /\ \A g \in gets : passed_before(g)
    /\ rps > 0 =>
         \A k \in 1..Len(passages) - 1 :
           passages[k + 1].now - passages[k].now >= interval(rps)
    /\ rps <= 0 =>
         /\ next_time = 0 /\ rate_lock = 0 /\ passages = <<>>
         /\ \A w \in DOMAIN rl : rl[w].pc # "sleep"

\* Two workers have passed rate_limit, the second after sleeping for the
\* first, and a retry has passed it too.
C16_Witness ==
    /\ rps > 0
    /\ \E k \in 1..Len(passages) - 1 :
         /\ passages[k].worker # passages[k + 1].worker
         /\ passages[k + 1].now = passages[k].now + interval(rps)
    /\ \E g \in gets : g.attempt = 1

\* ------------------------------- claims about wiktionary_locale_dump.py main
\* C17: an exception raised by a worker's process_one call and reached by the
\* result loop does not propagate; it becomes one record of the retry output,
\* the loop goes on and the run ends normally.
C17_WorkerFaultBecomesRetryRecord ==
    \A t \in DOMAIN dm_result :
      (dm_result[t] = "raised" /\ t <= dm_taken) =>
        /\ dm_exc = 0
        /\ Count(dm_out.r_out, t) = 1
        /\ dm_pc # "raised"

\* ------------------------------------- claims about the capitalized lookup
\* check_wiktionary's lookup came to a status other than 200 and 404.
transient_status(status) == status \notin {0, 200, 404}

\* C18: in cap mode, for both classifiers, a lowercase lookup that ends
\* transient makes the candidate Retry at once: one retry line (outcome
\* Retry), and no capitalized lookup is issued.
C18_TransientLowerIsRetryWithoutCapLookup ==
    use_cap =>
      /\ (cw_returned /\ transient_status(loc[1].status1)) =>
           /\ OneLineIn("retry")
           /\ rejected_count = 1 /\ processed_count = 1
           /\ loc[1].status2 = 0 /\ lk_reqs[2] = 0
      /\ (po_returned /\ ploc[1].transient1) =>
           /\ pres[1].outcome = "retry" /\ pres[1].entries = <<>>
           /\ Len(ploc[1].queries) = 1

C18_Witness ==
    /\ use_cap /\ cw_returned /\ po_returned
    /\ loc[1].status1 = 500 /\ cap_differs(loc[1].word) /\ Len(rejected_lines) = 1
    /\ ploc[1].transient1 /\ pres[1].outcome = "retry"

\* The capitalized lookup's final answer is a 200 with a JSON object that
\* lacks the locale.
cap_lacks_locale ==
    /\ last_response(lk_beh2).kind = "http" /\ last_response(lk_beh2).status = 200
    /\ locale_absent_or_empty(last_response(lk_beh2).body)

\* C19: in cap mode, for both classifiers, after a lowercase lookup that
\* returned 404 the capitalized form is looked up and its result alone gives
\* the outcome: 200 with the locale Validated, 404 Nonexistent, transient
\* Retry, 200 without the locale Rejected/WrongLocale.
C19_Lower404ResolvedByCapLookup ==
    use_cap =>
      /\ (cw_returned /\ loc[1].status1 = 404 /\ cap_differs(loc[1].word)) =>
           /\ loc[1].status2 # 0 /\ lk_reqs[2] > 0
           /\ good_200(loc[1].status2, loc[1].data2) => OneLineIn("validated")
           /\ loc[1].status2 = 404 => OneLineIn("nonexistent")
           /\ transient_status(loc[1].status2) => OneLineIn("retry")
           /\ cap_lacks_locale => OneLineIn("wrong_locale")
      /\ (po_returned /\ ploc[1].status1 = 404) =>
           /\ Len(ploc[1].queries) = 2
           /\ ploc[1].queries[2] = upper_first(strip_pos_suffix_for_query(ploc[1].token))
           /\ (ploc[1].status2 = 200 /\ ploc[1].e2 # <<>>) =>
                (pres[1].outcome = "validated" /\ pres[1].entries = ploc[1].e2)
           /\ ploc[1].status2 = 404 => pres[1].outcome = "nonexistent"
           /\ ploc[1].transient2 => pres[1].outcome = "retry"
           /\ cap_lacks_locale => pres[1].outcome = "rejected"

\* C20: in check_wiktionary with cap mode on, after a lowercase lookup that
\* returned 200 without the locale the capitalized form is still looked up:
\* the candidate is Validated if that lookup has the locale, and
\* Rejected/WrongLocale only if it lacks the locale too.
C20_MissingLocaleStillTriesCap ==
    ( /\ use_cap /\ cw_returned /\ cap_differs(loc[1].word)
      /\ usable_200(loc[1].status1, loc[1].data1) /\ loc[1].locale_missing1 ) =>
        /\ loc[1].status2 # 0 /\ lk_reqs[2] > 0
        /\ good_200(loc[1].status2, loc[1].data2) => OneLineIn("validated")
        /\ OneLineIn("wrong_locale") => loc[1].locale_missing2

\* C21: in check_wiktionary with cap mode on, after the lowercase lookup has
\* produced a Validated record, a capitalized probe that returns 200 without
\* the locale is ignored: no wrong-locale line, skipped_count unchanged.
C21_CapWrongLocaleIgnoredAfterSuccess ==
    ( /\ use_cap /\ cw_returned /\ loc[1].validated1
      /\ loc[1].status2 = 200 /\ cap_lacks_locale ) =>
        /\ Count(locale_rejected_all, 1) = 0
        /\ skipped_count = 0
        /\ OneLineIn("validated")

\* ------------------------------------------ claims about the order of probes
cap_probe_pcs == {"probe2A", "probe2B"}

ld_first == ld_fetch_definition(lk_beh1)

one_lookup_of_query_token ==
    /\ Len(ploc[1].queries) = 1
    /\ ploc[1].queries[1] = strip_pos_suffix_for_query(ploc[1].token)

retryable_statuses == {429, 500, 502, 503, 504}

\* The server answers every request with a retryable status.
always_retryable(beh) ==
    \A k \in 1..Len(beh) : beh[k].kind = "http" /\ beh[k].status \in retryable_statuses

\* C24: when every attempt of wiktionary_locale_dump.py's fetch_definition
\* gets a retryable status, the function gives up after max_attempts
\* requests and returns a transient result that carries the last HTTP status
\* received.
C24_ExhaustedRetriesCarryLastStatus ==
    (always_retryable(lk_beh1) /\ po_returned) =>
        /\ ploc[1].reqs[1] = max_attempts
        /\ ploc[1].transient1 /\ pres[1].outcome = "retry"
        /\ ploc[1].status1 = last_response(lk_beh1).status

\* C25: cleanse-dictionary.py's fetch_definition treats each of 429, 500,
\* 502, 503 and 504 as retryable: against a server that keeps answering with
\* such statuses it sleeps and repeats the request up to the maximum attempt
\* count (1 + RATE_LIMIT_MAX_RETRIES requests) before it returns the
\* transient result.
C25_ServerErrorsRetriedLikeRateLimit ==
    (always_retryable(lk_beh1) /\ cw_returned) =>
        /\ lk_reqs[1] = 1 + RATE_LIMIT_MAX_RETRIES
        /\ loc[1].status1 = last_response(lk_beh1).status
        /\ OneLineIn("retry")

\* What cleanse-dictionary.py's fetch_definition makes of the candidate's
\* first lookup.
cd_first == fetch_definition(lk_beh1)

\* The server raises a network error on every request / answers 200 with a
\* body that is not JSON.
always_exception(beh) == \A k \in 1..Len(beh) : beh[k].kind = "exc"
always_unparsable(beh) ==
    \A k \in 1..Len(beh) :
      beh[k].kind = "http" /\ beh[k].status = 200 /\ beh[k].body.json = "garbage"

\* C26: in cleanse-dictionary.py's fetch_definition a network or parse
\* exception is retried with the backoff of a retryable status; the
\* transient result with reason 'exception' is returned only after the
\* final attempt has failed too, and check_wiktionary records it as one
\* Retry line with reason 'exception'.
C26_ExceptionsRetriedBeforeGivingUp ==
    ((always_exception(lk_beh1) \/ always_unparsable(lk_beh1)) /\ cw_returned) =>
        /\ lk_reqs[1] = 1 + RATE_LIMIT_MAX_RETRIES
        /\ loc[1].status1 = -1
        /\ OneLineIn("retry")
        /\ \A k \in 1..Len(rejected_all) : rejected_all[k].reason = "exception"

\* The server's answer is an HTTP status that is none of 200, 404 and the
\* retryable statuses (403 in the model), possibly after rate-limited
\* attempts.
ends_with_other_status(beh) ==
    /\ last_response(beh).kind = "http"
    /\ last_response(beh).status \notin {200, 404} \cup retryable_statuses

written(th) ==
    IF lk_at[th].phase # "done" THEN {}
    ELSE { IF v = "locals" THEN <<"locals", th>> ELSE <<v, 0>> : v \in lk_at[th].site.writes }

writers(x) == { th \in DOMAIN lk_at : x \in written(th) }

is_record(line) == line.kind = "record"

\* Position of the first record below the cutoff; one past the end when
\* there is none.
cut_position ==
    LET low == { i \in 1..Len(csv_lines) :
                   is_record(csv_lines[i]) /\ csv_lines[i].freq < MIN_FREQUENCY[1] }
    IN  IF low = {} THEN Len(csv_lines) + 1
        ELSE CHOOSE i \in low : \A j \in low : i <= j

passes_length(line) ==
    LET L == word_len(normalize_term(line.term)) IN
    /\ (min_len # <<>> => L >= min_len[1])
    /\ (max_len # <<>> => L <= max_len[1])

\* The positions whose line became a task, in file order.
kept_positions ==
    { i \in 1..(cut_position - 1) : is_record(csv_lines[i]) /\ passes_length(csv_lines[i]) }

\* C30: with a cutoff, the tasks are exactly the records before the first
\* record below the cutoff that pass the length filter, one task each, in
\* file order; nothing at or after that record becomes a task.
C30_ReadingStopsAtFirstLowRecord ==
    (parse_pc = "done" /\ MIN_FREQUENCY # <<>>) =>
        /\ Len(parsed) = Cardinality(kept_positions)
        /\ \E pos \in [1..Len(parsed) -> kept_positions] :
             /\ \A a, b \in 1..Len(parsed) : a < b => pos[a] < pos[b]
             /\ \A a \in 1..Len(parsed) :
                  /\ parsed[a].line = csv_lines[pos[a]]
                  /\ parsed[a].freq = csv_lines[pos[a]].freq
                  /\ parsed[a].word = normalize_term(csv_lines[pos[a]].term)

\* A record at or above the cutoff follows the first low record and is not
\* read, while a record before it became a task.
C30_Witness ==
    /\ parse_pc = "done" /\ MIN_FREQUENCY # <<>>
    /\ Len(csv_lines) = 3
    /\ cut_position = 2
    /\ is_record(csv_lines[3]) /\ csv_lines[3].freq >= MIN_FREQUENCY[1]
    /\ passes_length(csv_lines[3])
    /\ Len(parsed) = 1

\* ------------------------------------------------ claims about expressions
\* C31: for every well-formed expression, evaluating to_rpn's output gives
\* the expression's value under the documented precedence ('^' tightest,
\* then '&', then '|', parentheses overriding), a tag operand being true iff
\* the tag is among the record's tags whatever the letter case.
C31_RpnAgreesWithDocumentedPrecedence ==
    /\ ex_pc \in {"filter", "done"} => ex_rpn.ok
    /\ ex_pc # "exit2"
    /\ ex_pc = "done" => ex_ok = (IF ex_value THEN "True" ELSE "False")

\* "noun | VERB & ^noun" style: an expression in which all three operators
\* occur without parentheses has been evaluated, and one with parentheses.
C31_Witness ==
    /\ ex_pc = "done"
    /\ ex_tokens = <<"(", "noun", "|", "VERB", ")", "&", "noun">>
    /\ ex_tags = {"verb"}
    /\ ex_ok = "False"

\* --------------------------------------------- claims about the counters
\* Every task submitted so far has finished (returned or raised).
all_tasks_finished == nsub > 0 /\ \A t \in 1..nsub : finished(t)

\* C32: once all worker tasks have finished, validated_count equals the
\* number of lines appended to validated_out_lines during the run, those
\* already flushed included, with or without a target, with or without
\* --cap.
C32_ValidatedCountIsLinesAppended ==
    all_tasks_finished => validated_count = Len(validated_all)

\* A --cap run in which both spellings of a candidate were recorded and part
\* of the lines has been flushed.
C32_Witness ==
    /\ all_tasks_finished /\ nsub = MaxTasks /\ use_cap
    /\ validated_count >= 3
    /\ validated_file # <<>>

\* C33: with target T and W worker threads, at most T + W - 1 lines are ever
\* appended to validated_out_lines, under every interleaving, with or
\* without --cap.
C33_AtMostTargetPlusWorkersLines ==
    Len(MAX_VALIDATED) > 0 => Len(validated_all) <= MAX_VALIDATED[1] + Workers - 1

\* The bound is met: more lines than the target, one per extra worker.
C33_Witness ==
    /\ Len(MAX_VALIDATED) > 0
    /\ Len(validated_all) = MAX_VALIDATED[1] + Workers - 1
    /\ Len(validated_all) > MAX_VALIDATED[1]

\* ------------------------------ claims about wiktionary_locale_dump.py main
dump_counters == <<dm_validated, dm_cnt.retry, dm_cnt.nonexist, dm_cnt.rejected>>
dump_sum(c) == c[1] + c[2] + c[3] + c[4]

\* C34: in the result loop processed = validated + retry + nonexist +
\* rejected always; a consumed result raises exactly one of the four bucket
\* counters by one; with --max-validated M > 0 validated never exceeds M,
\* and a result obtained once validated has reached M changes no counter and
\* writes nothing.
C34_DumpCountersBalance ==
    /\ [](dm_pc # "idle" =>
            /\ dm_cnt.processed = dump_sum(dump_counters)
            /\ (max_validated > 0 => dm_validated <= max_validated))
    /\ [][ (dm_pc = "map" /\ dm_taken' # dm_taken /\ dm_result[dm_taken'] # "raised") =>
              IF max_validated > 0 /\ dm_validated >= max_validated
              THEN UNCHANGED <<dm_validated, dm_cnt, dm_out>>
              ELSE /\ dm_cnt'.processed = dm_cnt.processed + 1
                   /\ dump_sum(dump_counters') = dump_sum(dump_counters) + 1
                   /\ \A k \in 1..4 : dump_counters'[k] >= dump_counters[k] ]_vars

\* The target was met by counted results and a later result was taken and
\* discarded.
C34_Witness ==
    /\ max_validated > 0 /\ dm_validated = max_validated
    /\ dm_pc = "shutdown" /\ dm_exc = 0
    /\ dm_taken > dm_cnt.processed
    /\ dm_cnt.processed > 0

\* The candidates that have a record in some output.
dump_written ==
    UNION { { dm_out[b][k].task : k \in 1..Len(dm_out[b]) } : b \in DOMAIN dm_out }

\* C35: whatever the order in which the pool completes the lookups, records
\* are written in input order: a record is only ever written for a candidate
\* later in the input than every candidate already recorded, so every output
\* lists its candidates in input order.
C35_DumpWritesInInputOrder ==
    /\ [](\A b \in DOMAIN dm_out : \A i, j \in 1..Len(dm_out[b]) :
            i < j => dm_out[b][i].task < dm_out[b][j].task)
    /\ [][ \A t \in dump_written' \ dump_written : \A u \in dump_written : u < t ]_vars

\* Two candidates have their records in the same output.
C35_Witness ==
    \E b \in DOMAIN dm_out :
        Len(dm_out[b]) = 2 /\ dm_out[b][1].task = 1 /\ dm_out[b][2].task = 2

\* C36: without --cap, between lock blocks processed_count = validated_count
\* + skipped_count + rejected_count + nonexistent_count, under every
\* interleaving, the tasks that raised and were recorded by main included.
C36_ProcessedIsSumOfOutcomes ==
    ~use_cap =>
        processed_count =
            validated_count + skipped_count + rejected_count + nonexistent_count

\* Main has recorded a task that raised, and a worker has counted another.
C36_Witness ==
    /\ ~use_cap
    /\ thread_exception_lines > 0
    /\ processed_count > thread_exception_lines
    /\ nonexistent_count + skipped_count > 0

\* A call that is returning without having made a lookup.
returns_unprobed(t) == loc[t].pc = "ret" /\ loc[t].status1 = 0

\* C37: a check_wiktionary call that starts when validated_count has reached
\* MAX_VALIDATED returns without a lookup and leaves every counter,
\* last_processed_word and the four buffers as they were.
C37_CallAtTargetIsNoOp ==
    /\ [][ \A t \in Tasks :
             /\ (target_reached /\ fut[t] = "queued" /\ fut'[t] = "running") =>
                    /\ loc'[t].pc = "ret" /\ loc'[t].status1 = 0
                    /\ UNCHANGED <<counters, buffers>>
             /\ (returns_unprobed(t) /\ fut'[t] = "returned") =>
                    UNCHANGED <<counters, buffers>> ]_vars
    /\ [](\A t \in Tasks :
            returns_unprobed(t) => (loc[t].cnt = NoCount /\ lines_of(t) = 0))

\* A call started at the target is about to return.
C37_Witness ==
    \E t \in Tasks : target_reached /\ fut[t] = "running" /\ returns_unprobed(t)

\* ------------------------------------------ claims about termination
\* C38: every lookup ends after a bounded number of requests whatever the
\* server does: cleanse-dictionary.py's fetch_definition issues at most
\* RATE_LIMIT_MAX_RETRIES + 1 = 7 requests and wiktionary_locale_dump.py's at
\* most max_attempts = 6, and each then returns a result to its classifier.
C38_LookupsIssueBoundedRequests ==
    /\ RATE_LIMIT_MAX_RETRIES + 1 = 7 /\ max_attempts = 6
    /\ lk_beh1 # <<>> =>
         /\ cd_first.requests \in 1..(RATE_LIMIT_MAX_RETRIES + 1)
         /\ ld_first.requests \in 1..max_attempts
    /\ cw_returned =>
         /\ lk_reqs[1] \in 1..(RATE_LIMIT_MAX_RETRIES + 1)
         /\ lk_reqs[2] \in 0..(RATE_LIMIT_MAX_RETRIES + 1)
    /\ po_returned =>
         /\ Len(ploc[1].reqs) >= 1
         /\ \A k \in 1..Len(ploc[1].reqs) : ploc[1].reqs[k] \in 1..max_attempts

\* Against a server that never stops answering 429 both lookups have used
\* all their requests and both classifiers have their result.
C38_Witness ==
    /\ lk_beh1 = <<R429>>
    /\ cw_returned /\ lk_reqs[1] = RATE_LIMIT_MAX_RETRIES + 1
    /\ po_returned /\ ploc[1].reqs[1] = max_attempts

\* C39: a run neither deadlocks nor runs forever: until main has returned
\* some thread can always take a step, and given that every lookup returns,
\* every submitted task finishes, the executor shuts down and the final
\* flush_outputs is executed, whatever the interleaving, with or without an
\* early stop at the target.
C39_RunTerminatesWithFinalFlush ==
    /\ [](main_pc = "done" \/ ENABLED Next)
    /\ <>[](main_pc = "done")
    /\ [](main_pc = "done" =>
            /\ \A t \in 1..nsub : finished(t)
            /\ validated_out_lines = <<>> /\ rejected_lines = <<>>
            /\ nonexistent_lines = <<>> /\ locale_skipped_lines = <<>>)

\* A run that stopped early at the target has ended, every submitted task
\* finished and every line flushed.
C39_Witness ==
    /\ main_pc = "done" /\ target_reached
    /\ nsub = MaxTasks /\ \A t \in 1..nsub : finished(t)
    /\ Len(validated_file) > MAX_VALIDATED[1]
    /\ validated_out_lines = <<>>

====
